---- MODULE Spec2Model ----
(***************************************************************************)
(* Model of mindful-jira's comment editor (mention tracking), of the ADF   *)
(* encoder/decoder of jira.rs and of fuzzy_match.                          *)
(*                                                                         *)
(* Strings are sequences of one-character strings; a Rust char index i     *)
(* (0-based) is element i+1 of the sequence.                               *)
(***************************************************************************)
EXTENDS Integers, Sequences, FiniteSets, TLC

VARIABLES
    mode,               \* App::mode, restricted to the ticket-detail modes
    comment_input,      \* App::comment_input
    cursor_pos,         \* App::cursor_pos (char index)
    mention,            \* App::mention: <<>> is None, <<m>> is Some(m)
    resolved_mentions,  \* App::resolved_mentions
    last_mention_query, \* App::last_mention_query
    issued_lookup,      \* history, kept when phase = "lookups": the query of the
                        \* search_users call issued last in this comment box,
                        \* <<>> before the first
    phase,              \* position of the pure-function harnesses
    input,              \* arguments handed to the function under check
    output              \* what it returned

vars == <<mode, comment_input, cursor_pos, mention, resolved_mentions,
          last_mention_query, issued_lookup, phase, input, output>>

editor_vars == <<mode, comment_input, cursor_pos, mention, resolved_mentions,
                 last_mention_query>>

harness_vars == <<phase, input, output>>

-----------------------------------------------------------------------------
(* Bounds *)

\* longest comment buffer explored
MaxLen == 5

\* most resolved mentions recorded at once
MaxMentions == 2

-----------------------------------------------------------------------------
(* Generic helpers *)

\* chars[a..b] of Rust: the chars at indices a, ..., b-1
Slice(chars, a, b) == SubSeq(chars, a + 1, b)

Min(a, b) == IF a <= b THEN a ELSE b

RECURSIVE Concat(_)
Concat(ss) == IF ss = <<>> THEN <<>> ELSE Head(ss) \o Concat(Tail(ss))

RECURSIVE SelectSeqBy(_, _)
\* s.retain(keep) for a set `keep` of the elements kept
SelectSeqBy(s, keep) ==
    IF s = <<>> THEN <<>>
    ELSE IF Head(s) \in keep THEN <<Head(s)>> \o SelectSeqBy(Tail(s), keep)
    ELSE SelectSeqBy(Tail(s), keep)

-----------------------------------------------------------------------------
(* The editor: keys typed in the comment box *)

\* characters typed as ordinary text
PlainChars == {"a"}

\* the users the tracker knows: accountId and displayName
User1 == [account_id |-> "u1", display_name |-> <<"a">>]
User2 == [account_id |-> "u2", display_name |-> <<"a", "a">>]
Directory == <<User1, User2>>

IsPrefix(p, s) == Len(p) <= Len(s) /\ SubSeq(s, 1, Len(p)) = p

\* jira::search_users on success: the users matching the query, in directory order
search_users(query) ==
    SelectSeqBy(Directory, {u \in {User1, User2} : IsPrefix(query, u.display_name)})

\* the character put at the end of the string, wherever the cursor is
input_append(s, cursor, c) == Append(s, c)

\* main.rs input_insert: the string after inserting c at the cursor
input_insert(s, cursor, c) ==
    LET bp == Min(cursor, Len(s))
    IN  SubSeq(s, 1, bp) \o <<c>> \o SubSeq(s, bp + 1, Len(s))

\* main.rs input_backspace: string and cursor after deleting the char before the cursor
input_backspace(s, cursor) ==
    IF cursor > 0
    THEN [s |-> SubSeq(s, 1, cursor - 1) \o SubSeq(s, cursor + 1, Len(s)),
          cursor |-> cursor - 1]
    ELSE [s |-> s, cursor |-> cursor]

\* main.rs input_delete: the string after deleting the char at the cursor
input_delete(s, cursor) ==
    IF cursor < Len(s)
    THEN SubSeq(s, 1, cursor) \o SubSeq(s, cursor + 2, Len(s))
    ELSE s

\* the text a resolved mention stands for
MentionText(display_name) == <<"@">> \o display_name

\* the retain predicate of invalidate_overlapping_mentions
mention_still_valid(chars, rm) ==
    LET end == rm.start_pos + rm.len
    IN  IF end > Len(chars) THEN FALSE
        ELSE Slice(chars, rm.start_pos, end) = MentionText(rm.display_name)

RECURSIVE RetainValid(_, _)
RetainValid(chars, rms) ==
    IF rms = <<>> THEN <<>>
    ELSE IF mention_still_valid(chars, Head(rms))
         THEN <<Head(rms)>> \o RetainValid(chars, Tail(rms))
         ELSE RetainValid(chars, Tail(rms))

\* App::invalidate_overlapping_mentions
invalidate_overlapping_mentions(chars, rms) == RetainValid(chars, rms)

\* the query re-read from the '@' on, one character too early
update_mention_query_from_at(m, chars, cursor) ==
    IF m.trigger_pos <= Len(chars)
    THEN [m EXCEPT !.query = Slice(chars, m.trigger_pos - 1, cursor)]
    ELSE m

\* App::update_mention_query: the MentionState with its query re-read from the buffer
update_mention_query(m, chars, cursor) ==
    IF m.trigger_pos <= Len(chars)
    THEN [m EXCEPT !.query = Slice(chars, m.trigger_pos, cursor)]
    ELSE m

\* the lookup asks for the query remembered from the lookup before
lookup_previous_query(query, last) == last

\* jira::search_users(&self.config, &query): the query the lookup is issued for
lookup_query(query, last) == query

\* the lookup issued for every non-empty query, also the one just looked up
fetch_without_debounce(m, last, ok) ==
    IF m.query = <<>>
    THEN [m |-> [m EXCEPT !.candidates = <<>>, !.selected = 0], last |-> <<>>,
          issued |-> FALSE]
    ELSE IF ok
    THEN [m |-> [m EXCEPT !.candidates = search_users(m.query), !.selected = 0],
          last |-> m.query, issued |-> TRUE]
    ELSE [m |-> m, last |-> m.query, issued |-> TRUE]

\* App::fetch_mention_candidates: MentionState and last_mention_query afterwards;
\* ok tells whether the lookup, if one is issued, succeeds
fetch_mention_candidates(m, last, ok) ==
    IF m.query = <<>>
    THEN [m |-> [m EXCEPT !.candidates = <<>>, !.selected = 0], last |-> <<>>,
          issued |-> FALSE]
    ELSE IF m.query = last
    THEN [m |-> m, last |-> last, issued |-> FALSE]
    ELSE IF ok
    THEN [m |-> [m EXCEPT !.candidates = search_users(lookup_query(m.query, last)),
                          !.selected = 0],
          last |-> m.query, issued |-> TRUE]
    ELSE [m |-> m, last |-> m.query, issued |-> TRUE]

\* a slip in select_mention: the trailing space counted into the span
mention_text_len_with_space(replace_char_len) == replace_char_len

\* select_mention: length recorded for the span, the "@name" without the trailing space
mention_text_len(replace_char_len) == replace_char_len - 1

\* select_mention: the start of an existing span after the replacement; the sum
\* (as isize, back to usize) stays at or above 0 for every buffer of the model
shifted_start(rm, at_pos, shift) ==
    IF rm.start_pos > at_pos /\ rm.start_pos # at_pos
    THEN rm.start_pos + shift
    ELSE rm.start_pos

\* Mode::DetailAddingComment | Mode::DetailEditingComment
Editing == mode \in {"DetailAddingComment", "DetailEditingComment"}
Composing == Editing /\ mention # <<>>
NormalEditing == Editing /\ mention = <<>>

\* the account the program runs as
current_account_id == "u1"

\* the comment fields of App next to the editor: the comments of the open ticket,
\* the selected comment, the comment being edited; and the comment lists the
\* tracker may answer a fetch of the ticket with
CommentFields(comments, selected, editing, fetchable) ==
    [comments |-> comments, detail_comment_selected |-> selected,
     editing_comment_id |-> editing, fetchable |-> fetchable]

\* a ticket without comments
NoComments == CommentFields(<<>>, <<>>, <<>>, {<<>>})

\* Mode::TicketDetail, key 'c'
start_adding_comment ==
    /\ mode = "TicketDetail"
    /\ comment_input' = <<>>
    /\ cursor_pos' = 0
    /\ mention' = <<>>
    /\ last_mention_query' = <<>>
    /\ resolved_mentions' = <<>>
    /\ mode' = "DetailAddingComment"
    /\ issued_lookup' = <<>>
    /\ output' = <<>>
    /\ UNCHANGED <<phase, input>>

\* Esc in normal comment editing, 'n' or Esc at the delete confirmation
cancel_comment_action ==
    /\ NormalEditing \/ mode = "DetailConfirmDelete"
    /\ comment_input' = <<>>
    /\ input' = [input EXCEPT !.editing_comment_id = <<>>]
    /\ mention' = <<>>
    /\ last_mention_query' = <<>>
    /\ resolved_mentions' = <<>>
    /\ mode' = "TicketDetail"
    /\ UNCHANGED <<cursor_pos, issued_lookup, phase, output>>

KeyLeft ==
    /\ NormalEditing
    /\ cursor_pos' = IF cursor_pos > 0 THEN cursor_pos - 1 ELSE cursor_pos
    /\ UNCHANGED <<mode, comment_input, mention, resolved_mentions,
                   last_mention_query, issued_lookup, harness_vars>>

KeyRight ==
    /\ NormalEditing
    /\ cursor_pos' = IF cursor_pos < Len(comment_input) THEN cursor_pos + 1
                     ELSE cursor_pos
    /\ UNCHANGED <<mode, comment_input, mention, resolved_mentions,
                   last_mention_query, issued_lookup, harness_vars>>

KeyHome ==
    /\ NormalEditing
    /\ cursor_pos' = 0
    /\ UNCHANGED <<mode, comment_input, mention, resolved_mentions,
                   last_mention_query, issued_lookup, harness_vars>>

KeyEnd ==
    /\ NormalEditing
    /\ cursor_pos' = Len(comment_input)
    /\ UNCHANGED <<mode, comment_input, mention, resolved_mentions,
                   last_mention_query, issued_lookup, harness_vars>>

\* Backspace in normal comment editing
KeyBackspace ==
    /\ NormalEditing
    /\ LET r == input_backspace(comment_input, cursor_pos)
       IN  /\ comment_input' = r.s
           /\ cursor_pos' = r.cursor
           /\ resolved_mentions' = invalidate_overlapping_mentions(r.s, resolved_mentions)
    /\ UNCHANGED <<mode, mention, last_mention_query, issued_lookup, harness_vars>>

\* Delete in normal comment editing
KeyDelete ==
    /\ NormalEditing
    /\ LET s == input_delete(comment_input, cursor_pos)
       IN  /\ comment_input' = s
           /\ resolved_mentions' = invalidate_overlapping_mentions(s, resolved_mentions)
    /\ UNCHANGED <<mode, cursor_pos, mention, last_mention_query, issued_lookup, harness_vars>>

\* '@' in normal comment editing: input_insert, then App::activate_mention
KeyAt ==
    /\ NormalEditing
    /\ Len(comment_input) < MaxLen
    /\ comment_input' = input_insert(comment_input, cursor_pos, "@")
    /\ cursor_pos' = cursor_pos + 1
    /\ mention' = <<[trigger_pos |-> cursor_pos + 1, query |-> <<>>,
                     candidates |-> <<>>, selected |-> 0]>>
    /\ UNCHANGED <<mode, resolved_mentions, last_mention_query, issued_lookup, harness_vars>>

\* any other character (a space included) in normal comment editing
KeyChar(c) ==
    /\ NormalEditing
    /\ Len(comment_input) < MaxLen
    /\ LET s == input_insert(comment_input, cursor_pos, c)
       IN  /\ comment_input' = s
           /\ resolved_mentions' = invalidate_overlapping_mentions(s, resolved_mentions)
    /\ cursor_pos' = cursor_pos + 1
    /\ UNCHANGED <<mode, mention, last_mention_query, issued_lookup, harness_vars>>

\* Up with the mention overlay open
mention_move_up ==
    /\ Composing
    /\ mention' = <<[mention[1] EXCEPT !.selected = IF @ > 0 THEN @ - 1 ELSE @]>>
    /\ UNCHANGED <<mode, comment_input, cursor_pos, resolved_mentions,
                   last_mention_query, issued_lookup, harness_vars>>

\* Down with the mention overlay open
mention_move_down ==
    /\ Composing
    /\ LET m == mention[1]
       IN  mention' = IF m.candidates # <<>> /\ m.selected < Len(m.candidates) - 1
                      THEN <<[m EXCEPT !.selected = @ + 1]>>
                      ELSE mention
    /\ UNCHANGED <<mode, comment_input, cursor_pos, resolved_mentions,
                   last_mention_query, issued_lookup, harness_vars>>

\* Enter or Tab with the mention overlay open
\* Enter without a candidate closes the overlay
select_mention_dismissing ==
    /\ Composing
    /\ mention[1].candidates = <<>>
    /\ mention' = <<>>
    /\ UNCHANGED <<mode, comment_input, cursor_pos, resolved_mentions,
                   last_mention_query, issued_lookup, harness_vars>>

select_mention ==
    /\ Composing
    /\ LET m == mention[1]
       IN  IF m.selected + 1 > Len(m.candidates)
           THEN UNCHANGED <<comment_input, cursor_pos, resolved_mentions, mention>>
           ELSE LET candidate == m.candidates[m.selected + 1]
                    at_pos == m.trigger_pos - 1
                    replace_text == MentionText(candidate.display_name) \o <<" ">>
                    replace_char_len == Len(replace_text)
                    old_cursor == cursor_pos
                    pushed == Append(resolved_mentions,
                                 [start_pos |-> at_pos,
                                  len |-> mention_text_len(replace_char_len),
                                  account_id |-> candidate.account_id,
                                  display_name |-> candidate.display_name])
                    shift == replace_char_len - (old_cursor - at_pos)
                IN  /\ Len(comment_input) + shift <= MaxLen
                    /\ Len(resolved_mentions) < MaxMentions
                    /\ comment_input' = Slice(comment_input, 0, at_pos) \o replace_text
                          \o Slice(comment_input, cursor_pos, Len(comment_input))
                    /\ cursor_pos' = at_pos + replace_char_len
                    /\ resolved_mentions' =
                          [i \in 1..Len(pushed) |->
                              [pushed[i] EXCEPT !.start_pos =
                                  shifted_start(pushed[i], at_pos, shift)]]
                    /\ mention' = <<>>
    /\ UNCHANGED <<mode, last_mention_query, issued_lookup, harness_vars>>

\* Esc with the mention overlay open: App::cancel_mention
cancel_mention ==
    /\ Composing
    /\ mention' = <<>>
    /\ last_mention_query' = <<>>
    /\ UNCHANGED <<mode, comment_input, cursor_pos, resolved_mentions, issued_lookup, harness_vars>>

\* Backspace with the mention overlay open
MentionBackspace(ok) ==
    /\ Composing
    /\ LET trigger_pos == mention[1].trigger_pos
           r == input_backspace(comment_input, cursor_pos)
       IN  /\ comment_input' = r.s
           /\ cursor_pos' = r.cursor
           /\ IF r.cursor < trigger_pos
              THEN /\ mention' = <<>>
                   /\ last_mention_query' = <<>>
                   /\ UNCHANGED issued_lookup
              ELSE LET f == fetch_mention_candidates(
                                update_mention_query(mention[1], r.s, r.cursor),
                                last_mention_query, ok)
                   IN  /\ mention' = <<f.m>>
                       /\ last_mention_query' = f.last
                       /\ issued_lookup' = IF phase = "lookups" /\ f.issued
                                           THEN <<f.m.query>>
                                           ELSE issued_lookup
    /\ UNCHANGED <<mode, resolved_mentions, harness_vars>>

\* a space with the mention overlay open
MentionSpace ==
    /\ Composing
    /\ Len(comment_input) < MaxLen
    /\ mention' = <<>>
    /\ last_mention_query' = <<>>
    /\ comment_input' = input_insert(comment_input, cursor_pos, " ")
    /\ cursor_pos' = cursor_pos + 1
    /\ UNCHANGED <<mode, resolved_mentions, issued_lookup, harness_vars>>

\* any other character with the mention overlay open
MentionChar(c, ok) ==
    /\ Composing
    /\ Len(comment_input) < MaxLen
    /\ LET s == input_insert(comment_input, cursor_pos, c)
           f == fetch_mention_candidates(
                    update_mention_query(mention[1], s, cursor_pos + 1),
                    last_mention_query, ok)
       IN  /\ comment_input' = s
           /\ mention' = <<f.m>>
           /\ last_mention_query' = f.last
           /\ issued_lookup' = IF phase = "lookups" /\ f.issued THEN <<f.m.query>>
                               ELSE issued_lookup
    /\ cursor_pos' = cursor_pos + 1
    /\ UNCHANGED <<mode, resolved_mentions, harness_vars>>

Init ==
    /\ mode = "TicketDetail"
    /\ comment_input = <<>>
    /\ cursor_pos = 0
    /\ mention = <<>>
    /\ resolved_mentions = <<>>
    /\ last_mention_query = <<>>
    /\ issued_lookup = <<>>
    /\ phase = "editor"
    /\ input = NoComments
    /\ output = <<>>

Next ==
    \/ start_adding_comment
    \/ cancel_comment_action
    \/ KeyLeft
    \/ KeyRight
    \/ KeyHome
    \/ KeyEnd
    \/ KeyBackspace
    \/ KeyDelete
    \/ KeyAt
    \/ \E c \in PlainChars \cup {" "} : KeyChar(c)
    \/ mention_move_up
    \/ mention_move_down
    \/ select_mention
    \/ cancel_mention
    \/ \E ok \in BOOLEAN : MentionBackspace(ok)
    \/ MentionSpace
    \/ \E c \in PlainChars \cup {"@"}, ok \in BOOLEAN : MentionChar(c, ok)

Spec == Init /\ [][Next]_vars

\* the editor with the history of its lookups kept
InitLookups ==
    /\ mode = "TicketDetail"
    /\ comment_input = <<>>
    /\ cursor_pos = 0
    /\ mention = <<>>
    /\ resolved_mentions = <<>>
    /\ last_mention_query = <<>>
    /\ issued_lookup = <<>>
    /\ phase = "lookups"
    /\ input = NoComments
    /\ output = <<>>

SpecLookups == InitLookups /\ [][Next]_vars

\* the editor with a lookup service that always succeeds
NextSucceeding ==
    \/ start_adding_comment
    \/ cancel_comment_action
    \/ KeyLeft
    \/ KeyRight
    \/ KeyHome
    \/ KeyEnd
    \/ KeyBackspace
    \/ KeyDelete
    \/ KeyAt
    \/ \E c \in PlainChars \cup {" "} : KeyChar(c)
    \/ mention_move_up
    \/ mention_move_down
    \/ select_mention
    \/ cancel_mention
    \/ MentionBackspace(TRUE)
    \/ MentionSpace
    \/ \E c \in PlainChars \cup {"@"} : MentionChar(c, TRUE)

SpecSucceeding == Init /\ [][NextSucceeding]_vars

-----------------------------------------------------------------------------
(* jira.rs: the encoder text_to_adf *)

\* most text pieces an encoder input is put together from
MaxTokens == 3

\* largest start offset of a mention handed to the encoder
MaxStart == 3

\* largest len of a mention handed to the encoder
MaxSpanLen == 2

Https == <<"h", "t", "t", "p", "s", ":", "/", "/">>
Http == <<"h", "t", "t", "p", ":", "/", "/">>

\* char::is_whitespace, on the characters of the model
IsWhitespace(c) == c \in {" ", "\n", "\t"}

RECURSIVE FindFrom(_, _, _)
FindFrom(s, pat, from) ==
    IF from + Len(pat) > Len(s) THEN -1
    ELSE IF SubSeq(s, from + 1, from + Len(pat)) = pat THEN from
    ELSE FindFrom(s, pat, from + 1)

\* str::find(pat): index of the first occurrence, -1 for None
Find(s, pat) == FindFrom(s, pat, 0)

RECURSIVE FindWhitespaceFrom(_, _)
FindWhitespaceFrom(s, from) ==
    IF from >= Len(s) THEN -1
    ELSE IF IsWhitespace(s[from + 1]) THEN from
    ELSE FindWhitespaceFrom(s, from + 1)

\* the nodes of a paragraph: url of an inlineCard is kept in text, id is the
\* accountId of a mention
TextNode(t) == [type |-> "text", text |-> t, id |-> ""]
CardNode(url) == [type |-> "inlineCard", text |-> url, id |-> ""]
MentionNode(m) ==
    [type |-> "mention", text |-> MentionText(m.display_name), id |-> m.account_id]

RECURSIVE text_to_adf_nodes(_)
text_to_adf_nodes(remaining) ==
    IF remaining = <<>> THEN <<>>
    ELSE LET https == Find(remaining, Https)
             url_start == IF https # -1 THEN https ELSE Find(remaining, Http)
         IN  IF url_start = -1 THEN <<TextNode(remaining)>>
             ELSE LET url_part == Slice(remaining, url_start, Len(remaining))
                      ws == FindWhitespaceFrom(url_part, 0)
                      url_end == IF ws = -1 THEN Len(url_part) ELSE ws
                  IN  (IF url_start > 0
                       THEN <<TextNode(Slice(remaining, 0, url_start))>>
                       ELSE <<>>)
                      \o <<CardNode(Slice(url_part, 0, url_end))>>
                      \o text_to_adf_nodes(Slice(url_part, url_end, Len(url_part)))

RECURSIVE SplitLines(_)
\* text.split('\n')
SplitLines(text) ==
    LET i == Find(text, <<"\n">>)
    IN  IF i = -1 THEN <<text>>
        ELSE <<Slice(text, 0, i)>> \o SplitLines(Slice(text, i + 1, Len(text)))

RECURSIVE InsertByStart(_, _)
InsertByStart(m, sorted) ==
    IF sorted = <<>> THEN <<m>>
    ELSE IF m.start <= Head(sorted).start THEN <<m>> \o sorted
    ELSE <<Head(sorted)>> \o InsertByStart(m, Tail(sorted))

RECURSIVE sort_by_start(_)
\* sorted_mentions.sort_by_key(|m| m.start): stable
sort_by_start(ms) ==
    IF ms = <<>> THEN <<>> ELSE InsertByStart(Head(ms), sort_by_start(Tail(ms)))

\* chars[a..b] panics unless a <= b <= chars.len()
SliceOk(chars, a, b) == a <= b /\ b <= Len(chars)

\* a slip in text_to_adf: the text before a mention taken whenever pos differs
segment_before_if_differs(start, pos) == start # pos

\* text_to_adf: whether there is plain text between pos and the mention
segment_before(start, pos) == start > pos

\* a slip in text_to_adf: pos is left at the start of the mention
pos_at_mention(m) == m.start

\* text_to_adf: pos after a mention node
pos_after_mention(m) == m.start + m.len

RECURSIVE walk_line_mentions(_, _, _)
\* the loop over line_mentions: nodes pushed, pos, and whether a slice panicked
walk_line_mentions(chars, ms, acc) ==
    IF ms = <<>> THEN acc
    ELSE LET m == Head(ms)
             takes == segment_before(m.start, acc.pos)
             before == IF takes
                       THEN text_to_adf_nodes(Slice(chars, acc.pos, m.start))
                       ELSE <<>>
         IN  walk_line_mentions(chars, Tail(ms),
                [nodes |-> acc.nodes \o before \o <<MentionNode(m)>>,
                 pos |-> pos_after_mention(m),
                 panicked |-> acc.panicked \/ (takes /\ ~SliceOk(chars, acc.pos, m.start))])

\* the body of the scan closure: the content of the paragraph of one line
line_content(chars, line, line_start, sorted_mentions) ==
    LET line_end == line_start + Len(line)
        line_mentions == SelectSeq(sorted_mentions,
                            LAMBDA m : m.start >= line_start /\ m.start < line_end)
    IN  IF line_mentions = <<>>
        THEN [nodes |-> text_to_adf_nodes(line), panicked |-> FALSE]
        ELSE LET w == walk_line_mentions(chars, line_mentions,
                         [nodes |-> <<>>, pos |-> line_start, panicked |-> FALSE])
                 rest == IF w.pos < line_end
                         THEN text_to_adf_nodes(Slice(chars, w.pos, line_end))
                         ELSE <<>>
                 nodes == w.nodes \o rest
             IN  [nodes |-> IF nodes = <<>> THEN <<TextNode(<<>>)>> ELSE nodes,
                  panicked |-> w.panicked
                                 \/ (w.pos < line_end /\ ~SliceOk(chars, w.pos, line_end))]

RECURSIVE scan_lines(_, _, _, _)
\* the scan over the lines with char_offset
scan_lines(chars, lines, char_offset, sorted_mentions) ==
    IF lines = <<>> THEN <<>>
    ELSE <<line_content(chars, Head(lines), char_offset, sorted_mentions)>>
         \o scan_lines(chars, Tail(lines), char_offset + Len(Head(lines)) + 1,
                       sorted_mentions)

\* text_to_adf: the content of the paragraphs of the doc, in order, and whether
\* the call panicked instead of returning
text_to_adf(text, mentions) ==
    LET ps == scan_lines(text, SplitLines(text), 0, sort_by_start(mentions))
    IN  [doc |-> [i \in 1..Len(ps) |-> ps[i].nodes],
         panicked |-> \E i \in 1..Len(ps) : ps[i].panicked]

\* the pieces encoder inputs are put together from
TextTokens == {<<"a">>, <<" ">>, <<"\n">>, <<"@", "a">>, Https}

RECURSIVE TokenTexts(_)
TokenTexts(n) ==
    IF n = 0 THEN {<<>>}
    ELSE LET shorter == TokenTexts(n - 1)
         IN  shorter \cup {t \o tok : t \in shorter, tok \in TextTokens}

MentionInsert(start, len, account_id) ==
    [start |-> start, len |-> len, account_id |-> account_id,
     display_name |-> User1.display_name]

\* no mention, one mention, or two mentions in either order of their offsets
MentionLists ==
    LET at == (0..MaxStart) \X (0..MaxSpanLen)
    IN  {<<>>}
        \cup {<<MentionInsert(x[1], x[2], "u1")>> : x \in at}
        \cup {<<MentionInsert(x[1], x[2], "u1"), MentionInsert(y[1], y[2], "u2")>> :
                 x \in at, y \in at}

InitEncode ==
    /\ mode = "TicketDetail"
    /\ comment_input = <<>>
    /\ cursor_pos = 0
    /\ mention = <<>>
    /\ resolved_mentions = <<>>
    /\ last_mention_query = <<>>
    /\ issued_lookup = <<>>
    /\ phase = "input"
    /\ input \in [text : TokenTexts(MaxTokens), mentions : MentionLists]
    /\ output = <<>>

Encode ==
    /\ phase = "input"
    /\ output' = text_to_adf(input.text, input.mentions)
    /\ phase' = "done"
    /\ UNCHANGED <<input, editor_vars, issued_lookup>>

NextEncode == Encode

SpecEncode == InitEncode /\ [][NextEncode]_vars

-----------------------------------------------------------------------------
(* jira.rs: the decoder adf_to_text, and the way a decoded comment is sent back *)

\* a node of the document tree; marks are the mark types of a text node
Node(type, text, marks, content) ==
    [type |-> type, text |-> text, marks |-> marks, content |-> content]

\* the character U+0060, which a string of the module cannot hold
Backtick == "backtick"

\* the delimiter a mark wraps the text in; none for link and unknown marks
MarkDelimiter(mark) ==
    CASE mark = "strong" -> <<"*", "*">>
      [] mark = "em" -> <<"_">>
      [] mark = "code" -> <<Backtick>>
      [] mark = "strike" -> <<"~">>
      [] OTHER -> <<>>

RECURSIVE format_marks_first_outermost(_, _)
\* the marks nested the other way round: the first mark wraps all the others
format_marks_first_outermost(text, marks) ==
    IF marks = <<>> THEN text
    ELSE MarkDelimiter(Head(marks))
         \o format_marks_first_outermost(text, Tail(marks))
         \o MarkDelimiter(Head(marks))

RECURSIVE format_text_with_marks(_, _)
\* the marks applied from the first to the last, each wrapping the result so far
format_text_with_marks(text, marks) ==
    IF marks = <<>> THEN text
    ELSE format_text_with_marks(
            MarkDelimiter(Head(marks)) \o text \o MarkDelimiter(Head(marks)),
            Tail(marks))

\* value.get(key) of serde_json: <<>> is None, <<v>> is Some(v)
get(value, key) == IF key \in DOMAIN value THEN <<value[key]>> ELSE <<>>

\* opt.and_then(|a| a.get(key))
and_then_get(opt, key) == IF opt = <<>> THEN <<>> ELSE get(opt[1], key)

\* opt.unwrap_or(default)
unwrap_or(opt, default) == IF opt = <<>> THEN default ELSE opt[1]

\* the character U+2500 of the rule line, which a string of the module cannot hold
BoxLine == "boxline"

Digits == <<"0", "1", "2", "3", "4", "5", "6", "7", "8", "9">>

RECURSIVE decimal(_)
\* format!("{}", n) of an unsigned number
decimal(n) ==
    IF n < 10 THEN <<Digits[n + 1]>>
    ELSE decimal(n \div 10) \o <<Digits[(n % 10) + 1]>>

\* "#".repeat(level)
repeat(c, n) == [i \in 1..n |-> c]

\* str::lines(): the pieces between line feeds, without a last empty piece
str_lines(t) ==
    LET pieces == SplitLines(t)
    IN  IF pieces[Len(pieces)] = <<>> THEN SubSeq(pieces, 1, Len(pieces) - 1)
        ELSE pieces

\* a node of unknown type is a block: a line feed follows its children
unknown_type_as_block(t) == t \o <<"\n">>

\* _ => adf_children_text(value)
unknown_type_text(t) == t

RECURSIVE adf_to_text(_)
adf_children_text(value) ==
    LET content == get(value, "content")
    IN  IF content = <<>> THEN <<>>
        ELSE Concat([i \in 1..Len(content[1]) |-> adf_to_text(content[1][i])])

adf_to_text(value) ==
    LET type == get(value, "type")
        attrs == get(value, "attrs")
    IN  CASE type = <<"doc">> -> adf_children_text(value)
          [] type = <<"paragraph">> -> adf_children_text(value) \o <<"\n">>
          [] type = <<"heading">> ->
                repeat("#", unwrap_or(and_then_get(attrs, "level"), 1))
                \o <<" ">> \o adf_children_text(value) \o <<"\n">>
          [] type = <<"text">> ->
                LET raw == unwrap_or(get(value, "text"), <<>>)
                    marks == get(value, "marks")
                IN  IF marks = <<>> THEN raw
                    ELSE format_text_with_marks(raw, marks[1])
          [] type = <<"hardBreak">> -> <<"\n">>
          [] type = <<"bulletList">> -> adf_children_text(value)
          [] type = <<"orderedList">> ->
                LET content == get(value, "content")
                IN  IF content = <<>> THEN <<>>
                    ELSE Concat([i \in 1..Len(content[1]) |->
                                    <<" ", " ">> \o decimal(i) \o <<".", " ">>
                                    \o adf_children_text(content[1][i])])
          [] type = <<"listItem">> -> <<" ", " ", "-", " ">> \o adf_children_text(value)
          [] type = <<"blockquote">> ->
                LET ls == str_lines(adf_children_text(value))
                IN  Concat([i \in 1..Len(ls) |-> <<">", " ">> \o ls[i] \o <<"\n">>])
          [] type = <<"codeBlock">> ->
                <<Backtick, Backtick, Backtick>>
                \o unwrap_or(and_then_get(attrs, "language"), <<>>) \o <<"\n">>
                \o adf_children_text(value)
                \o <<Backtick, Backtick, Backtick, "\n">>
          [] type = <<"mention">> ->
                unwrap_or(and_then_get(attrs, "text"),
                          <<"@", "s", "o", "m", "e", "o", "n", "e">>)
          [] type = <<"emoji">> -> unwrap_or(and_then_get(attrs, "shortName"), <<>>)
          [] type = <<"inlineCard">> ->
                unwrap_or(and_then_get(attrs, "url"), <<"[", "l", "i", "n", "k", "]">>)
          [] type \in {<<"mediaGroup">>, <<"mediaSingle">>} ->
                <<"[", "m", "e", "d", "i", "a", "]", "\n">>
          [] type = <<"media">> -> <<"[", "m", "e", "d", "i", "a", "]">>
          [] type = <<"rule">> -> repeat(BoxLine, 8) \o <<"\n">>
          [] type \in {<<"table">>, <<"tableRow">>, <<"tableCell">>, <<"tableHeader">>} ->
                adf_children_text(value) \o <<"\n">>
          [] OTHER -> unknown_type_text(adf_children_text(value))

RECURSIVE TrimStart(_)
TrimStart(s) ==
    IF s # <<>> /\ IsWhitespace(Head(s)) THEN TrimStart(Tail(s)) ELSE s

RECURSIVE TrimEnd(_)
TrimEnd(s) ==
    IF s # <<>> /\ IsWhitespace(s[Len(s)]) THEN TrimEnd(SubSeq(s, 1, Len(s) - 1)) ELSE s

\* str::trim
Trim(s) == TrimEnd(TrimStart(s))

\* text nodes of the documents decoded and sent back
RoundTripNodes ==
    {Node("text", t, ms, <<>>) :
        t \in {<<"a">>, <<" ">>},
        ms \in {<<>>, <<"strong">>, <<"link">>, <<"em", "code">>}}

\* a paragraph of no, one or two text nodes
RoundTripParagraphs ==
    {Node("paragraph", <<>>, <<>>, c) :
        c \in {<<>>} \cup {<<n>> : n \in RoundTripNodes}
                \cup {<<n1, n2>> : n1, n2 \in RoundTripNodes}}

\* a doc of one or two paragraphs
RoundTripDocs ==
    {Node("doc", <<>>, <<>>, ps) :
        ps \in {<<p>> : p \in RoundTripParagraphs}
                 \cup {<<p1, p2>> : p1, p2 \in RoundTripParagraphs}}

InitRoundTrip ==
    /\ mode = "TicketDetail"
    /\ comment_input = <<>>
    /\ cursor_pos = 0
    /\ mention = <<>>
    /\ resolved_mentions = <<>>
    /\ last_mention_query = <<>>
    /\ issued_lookup = <<>>
    /\ phase = "input"
    /\ input \in RoundTripDocs
    /\ output = <<>>

\* the body of a fetched comment (fetch_issue_detail), edited without a change and
\* saved: save_edited_comment trims the buffer and encodes it with no mentions
DecodeAndEncode ==
    /\ phase = "input"
    /\ LET body == Trim(adf_to_text(input))
           text == Trim(body)
       IN  output' = [body |-> body, doc |-> text_to_adf(text, <<>>).doc]
    /\ phase' = "done"
    /\ UNCHANGED <<input, editor_vars, issued_lookup>>

NextRoundTrip == DecodeAndEncode

SpecRoundTrip == InitRoundTrip /\ [][NextRoundTrip]_vars

-----------------------------------------------------------------------------
(* app.rs: fuzzy_match *)

\* longest haystack
MaxHaystack == 4

\* longest needle
MaxNeedle == 3

FuzzyChars == {"a", "A", "b"}

UpperCase == <<"A", "B", "J", "O", "P", "R", "U">>
LowerCase == <<"a", "b", "j", "o", "p", "r", "u">>

\* char::to_lowercase on the characters of the model
to_lowercase(c) ==
    IF \E i \in DOMAIN UpperCase : UpperCase[i] = c
    THEN LowerCase[CHOOSE i \in DOMAIN UpperCase : UpperCase[i] = c]
    ELSE c

Lowered(s) == [i \in 1..Len(s) |-> to_lowercase(s[i])]

\* a slip in fuzzy_match: hay_idx left on the matched character
hay_idx_stays(hay_idx) == hay_idx

\* fuzzy_match: hay_idx after a match
hay_idx_after_match(hay_idx) == hay_idx + 1

RECURSIVE fuzzy_scan(_, _, _)
\* the inner while loop: the index at which nc is found from hay_idx on, -1 if none
fuzzy_scan(haystack_lower, hay_idx, nc) ==
    IF hay_idx >= Len(haystack_lower) THEN -1
    ELSE IF haystack_lower[hay_idx + 1] = nc THEN hay_idx
    ELSE fuzzy_scan(haystack_lower, hay_idx + 1, nc)

RECURSIVE fuzzy_loop(_, _, _, _)
\* the for loop over the needle
fuzzy_loop(haystack_lower, needle_lower, hay_idx, positions) ==
    IF needle_lower = <<>> THEN [found |-> TRUE, positions |-> positions]
    ELSE LET at == fuzzy_scan(haystack_lower, hay_idx, Head(needle_lower))
         IN  IF at = -1 THEN [found |-> FALSE, positions |-> <<>>]
             ELSE fuzzy_loop(haystack_lower, Tail(needle_lower),
                             hay_idx_after_match(at), Append(positions, at))

\* fuzzy_match: found is Some/None, positions the matched indices
fuzzy_match(haystack, needle) ==
    fuzzy_loop(Lowered(haystack), Lowered(needle), 0, <<>>)

RECURSIVE StringsUpTo(_, _)
StringsUpTo(chars, n) ==
    IF n = 0 THEN {<<>>}
    ELSE LET shorter == StringsUpTo(chars, n - 1)
         IN  shorter \cup {Append(t, c) : t \in shorter, c \in chars}

ExampleHaystack ==
    <<"P", "R", "O", "J", "-", "1", "0", "1", " ", "U", "s", "e", "r", " ",
      "a", "u", "t", "h">>

InitFuzzy ==
    /\ mode = "TicketDetail"
    /\ comment_input = <<>>
    /\ cursor_pos = 0
    /\ mention = <<>>
    /\ resolved_mentions = <<>>
    /\ last_mention_query = <<>>
    /\ issued_lookup = <<>>
    /\ phase = "input"
    /\ input \in [haystack : StringsUpTo(FuzzyChars, MaxHaystack),
                  needle : StringsUpTo(FuzzyChars, MaxNeedle)]
                 \cup {[haystack |-> ExampleHaystack, needle |-> <<"p", "u", "a">>],
                       [haystack |-> <<"a", "b", "c">>, needle |-> <<"x", "y", "z">>]}
    /\ output = <<>>

FuzzyMatch ==
    /\ phase = "input"
    /\ output' = fuzzy_match(input.haystack, input.needle)
    /\ phase' = "done"
    /\ UNCHANGED <<input, editor_vars, issued_lookup>>

NextFuzzy == FuzzyMatch

SpecFuzzy == InitFuzzy /\ [][NextFuzzy]_vars

-----------------------------------------------------------------------------
(* The renderer: word_wrap of ui.rs *)

\* longest text handed to word_wrap
MaxWrapLen == 8

\* widest line handed to word_wrap
MaxWidth == 4

WrapChars == {"a", " "}

RECURSIVE split_space(_)
\* text.split(' ')
split_space(text) ==
    LET i == Find(text, <<" ">>)
    IN  IF i = -1 THEN <<text>>
        ELSE <<Slice(text, 0, i)>> \o split_space(Slice(text, i + 1, Len(text)))

\* a word joins the current line with the room of the joining space ignored
fits_without_space(current_w, word_w, max_width) == current_w + word_w <= max_width

\* current_w + 1 + word_w <= max_width
fits(current_w, word_w, max_width) == current_w + 1 + word_w <= max_width

RECURSIVE wrap_words(_, _, _, _, _)
\* the for loop over the words and the push of the last line
wrap_words(words, lines, current, current_w, max_width) ==
    IF words = <<>>
    THEN IF current # <<>> \/ lines = <<>> THEN Append(lines, current) ELSE lines
    ELSE LET word == Head(words)
             word_w == Len(word)
         IN  IF current = <<>>
             THEN wrap_words(Tail(words), lines, word, word_w, max_width)
             ELSE IF fits(current_w, word_w, max_width)
             THEN wrap_words(Tail(words), lines, current \o <<" ">> \o word,
                             current_w + 1 + word_w, max_width)
             ELSE wrap_words(Tail(words), Append(lines, current), word, word_w,
                             max_width)

word_wrap(text, max_width) ==
    IF max_width = 0 \/ Len(text) <= max_width THEN <<text>>
    ELSE wrap_words(split_space(text), <<>>, <<>>, 0, max_width)

QuickBrownFox ==
    <<"t", "h", "e", " ", "q", "u", "i", "c", "k", " ", "b", "r", "o", "w", "n",
      " ", "f", "o", "x">>

InitWrap ==
    /\ mode = "TicketDetail"
    /\ comment_input = <<>>
    /\ cursor_pos = 0
    /\ mention = <<>>
    /\ resolved_mentions = <<>>
    /\ last_mention_query = <<>>
    /\ issued_lookup = <<>>
    /\ phase = "input"
    /\ input \in [text : StringsUpTo(WrapChars, MaxWrapLen), max_width : 0..MaxWidth]
                 \cup {[text |-> QuickBrownFox, max_width |-> 10]}
    /\ output = <<>>

WordWrap ==
    /\ phase = "input"
    /\ output' = word_wrap(input.text, input.max_width)
    /\ phase' = "done"
    /\ UNCHANGED <<input, editor_vars, issued_lookup>>

NextWrap == WordWrap

SpecWrap == InitWrap /\ [][NextWrap]_vars

-----------------------------------------------------------------------------
(* The renderer: parse_inline_markdown of ui.rs *)

\* longest text of the inline parser explored exhaustively
MaxInlineLen == 5

InlineChars == {"a", " ", "*", "["}

\* a styled fragment; style is body, bold, code or link
Span(content, style) == [content |-> content, style |-> style]

Stars == <<"*", "*">>

MinFound(a, b) == IF a = -1 THEN b ELSE IF b = -1 THEN a ELSE Min(a, b)

\* [find("https://"), find("http://")].flatten().min()
url_pos(remaining) == MinFound(Find(remaining, Https), Find(remaining, Http))

\* candidates ... min_by_key(|(p, _)| *p): the first of the nearest markers,
\* pos = -1 for None
nearest(remaining) ==
    LET found == <<Find(remaining, Stars), Find(remaining, <<Backtick>>),
                   Find(remaining, <<"[">>), url_pos(remaining)>>
        present == {t \in 1..4 : found[t] # -1}
    IN  IF present = {} THEN [pos |-> -1, marker_type |-> 0]
        ELSE LET t == CHOOSE t \in present :
                          \A u \in present :
                              found[t] < found[u] \/ (found[t] = found[u] /\ t <= u)
             IN  [pos |-> found[t], marker_type |-> t - 1]

RECURSIVE trim_end_punctuation(_)
\* raw_url.trim_end_matches('.' | ',' | ')' | ';' | ':' | '!' | '?')
trim_end_punctuation(s) ==
    IF s # <<>> /\ s[Len(s)] \in {".", ",", ")", ";", ":", "!", "?"}
    THEN trim_end_punctuation(SubSeq(s, 1, Len(s) - 1))
    ELSE s

\* the text after a bold fragment starts at its closing delimiter
rest_from_closer(after, end) == Slice(after, end, Len(after))

\* &after[end + 2..]
rest_after_bold(after, end) == Slice(after, end + 2, Len(after))

RECURSIVE parse_inline_loop(_)
\* the while loop: the spans pushed for `remaining`
parse_inline_loop(remaining) ==
    IF remaining = <<>> THEN <<>>
    ELSE
    LET n == nearest(remaining)
        pos == n.pos
        before == IF pos > 0 THEN <<Span(Slice(remaining, 0, pos), "body")>> ELSE <<>>
    IN  IF pos = -1 THEN <<Span(remaining, "body")>>
        ELSE IF n.marker_type = 0 THEN
            LET after == Slice(remaining, pos + 2, Len(remaining))
                end == Find(after, Stars)
            IN  IF end # -1
                THEN before \o <<Span(Slice(after, 0, end), "bold")>>
                            \o parse_inline_loop(rest_after_bold(after, end))
                ELSE before \o <<Span(Stars, "body")>> \o parse_inline_loop(after)
        ELSE IF n.marker_type = 1 THEN
            LET after == Slice(remaining, pos + 1, Len(remaining))
                end == Find(after, <<Backtick>>)
            IN  IF end # -1
                THEN before \o <<Span(Slice(after, 0, end), "code")>>
                            \o parse_inline_loop(Slice(after, end + 1, Len(after)))
                ELSE before \o <<Span(<<Backtick>>, "body")>> \o parse_inline_loop(after)
        ELSE IF n.marker_type = 2 THEN
            LET after == Slice(remaining, pos + 1, Len(remaining))
                bracket_end == Find(after, <<"]", "(">>)
                link_text == Slice(after, 0, bracket_end)
                url_part == Slice(after, bracket_end + 2, Len(after))
                paren_end == IF bracket_end = -1 THEN -1 ELSE Find(url_part, <<")">>)
                url == Slice(url_part, 0, paren_end)
            IN  IF paren_end # -1
                THEN before
                     \o <<Span(IF link_text = url \/ link_text = <<>> THEN url
                               ELSE link_text, "link")>>
                     \o parse_inline_loop(Slice(url_part, paren_end + 1, Len(url_part)))
                ELSE before \o <<Span(<<"[">>, "body")>> \o parse_inline_loop(after)
        ELSE
            LET url_text == Slice(remaining, pos, Len(remaining))
                ws == FindWhitespaceFrom(url_text, 0)
                end == IF ws = -1 THEN Len(url_text) ELSE ws
                url == trim_end_punctuation(Slice(url_text, 0, end))
            IN  before \o <<Span(url, "link")>>
                       \o parse_inline_loop(Slice(remaining, pos + Len(url),
                                                  Len(remaining)))

parse_inline_markdown(text) ==
    IF text = <<>> THEN <<Span(<<>>, "body")>>
    ELSE LET spans == parse_inline_loop(text)
         IN  IF spans = <<>> THEN <<Span(<<>>, "body")>> ELSE spans

\* "a **b** c" and "a **b"
TerminatedBold == <<"a", " ", "*", "*", "b", "*", "*", " ", "c">>
UnterminatedBold == <<"a", " ", "*", "*", "b">>

InlineExamples ==
    {TerminatedBold, UnterminatedBold,
     <<Backtick, "a", Backtick, "b", Backtick>>,
     <<"[", "a", "]", "(", "b", ")", "c">>,
     <<"[", "]", "(", "b", ")">>,
     <<"[", "a", "]", "(", "b">>,
     <<"a", " ">> \o Https \o <<"b", ".", " ", "c">>,
     Http \o <<"b", " ", "*", "*", "c", "*", "*">>}

InitInline ==
    /\ mode = "TicketDetail"
    /\ comment_input = <<>>
    /\ cursor_pos = 0
    /\ mention = <<>>
    /\ resolved_mentions = <<>>
    /\ last_mention_query = <<>>
    /\ issued_lookup = <<>>
    /\ phase = "input"
    /\ input \in StringsUpTo(InlineChars, MaxInlineLen) \cup InlineExamples
    /\ output = <<>>

ParseInline ==
    /\ phase = "input"
    /\ output' = parse_inline_markdown(input)
    /\ phase' = "done"
    /\ UNCHANGED <<input, editor_vars, issued_lookup>>

NextInline == ParseInline

SpecInline == InitInline /\ [][NextInline]_vars

-----------------------------------------------------------------------------
(* jira.rs: adf_to_text on trees with absent fields *)

\* a JSON object with the given optional type and content; <<>> is the object
\* with no field at all
MakeNode(type, content) ==
    CASE type = <<>> /\ content = <<>> -> <<>>
      [] type = <<>> /\ content # <<>> -> [content |-> content[1]]
      [] type # <<>> /\ content = <<>> -> [type |-> type[1]]
      [] OTHER -> [type |-> type[1], content |-> content[1]]

\* inline nodes, with and without the fields the decoder reads
DecodeLeaves ==
    {<<>>,
     [text |-> <<"a">>],
     [type |-> "text"],
     [type |-> "text", text |-> <<"a">>],
     [type |-> "text", marks |-> <<"em">>],
     [type |-> "text", text |-> <<"a">>, marks |-> <<"strong">>],
     [type |-> "mention"],
     [type |-> "mention", attrs |-> [id |-> "u1"]],
     [type |-> "mention", attrs |-> [id |-> "u1", text |-> <<"@", "a">>]],
     [type |-> "emoji"],
     [type |-> "inlineCard"],
     [type |-> "hardBreak"],
     [type |-> "media"],
     [type |-> "rule"]}

\* the types given to the nodes that hold children; panel is a type the decoder
\* does not know, <<>> is a missing type
DecodeTypes ==
    {<<>>, <<"panel">>, <<"doc">>, <<"paragraph">>, <<"heading">>, <<"bulletList">>,
     <<"orderedList">>, <<"listItem">>, <<"blockquote">>, <<"codeBlock">>,
     <<"table">>, <<"mediaSingle">>}

\* content absent, empty, or one or two of the children
Contents(children) ==
    {<<>>, <<<<>>>>} \cup {<<<<c>>>> : c \in children}
                     \cup {<<<<c1, c2>>>> : c1, c2 \in children}

DecodeBlocks ==
    {MakeNode(t, c) : t \in DecodeTypes, c \in Contents(DecodeLeaves)}
    \cup {[type |-> "heading", attrs |-> [level |-> 2],
           content |-> <<[type |-> "text", text |-> <<"a">>]>>],
          [type |-> "heading", attrs |-> [id |-> "h"]],
          [type |-> "codeBlock", attrs |-> [language |-> <<"a">>]],
          [type |-> "codeBlock", attrs |-> [id |-> "c"], content |-> <<[type |-> "text"]>>]}

\* a node of missing, unknown or known type over one block, or a block and a leaf
DecodeTrees ==
    DecodeLeaves \cup DecodeBlocks
    \cup {MakeNode(t, <<<<b>>>>) :
            t \in {<<>>, <<"panel">>, <<"doc">>, <<"blockquote">>, <<"orderedList">>},
            b \in DecodeBlocks}
    \cup {MakeNode(t, <<<<b, l>>>>) :
            t \in {<<>>, <<"panel">>},
            b \in {MakeNode(u, <<<<[type |-> "text", text |-> <<"a">>]>>>>) :
                      u \in DecodeTypes},
            l \in DecodeLeaves}

InitDecode ==
    /\ mode = "TicketDetail"
    /\ comment_input = <<>>
    /\ cursor_pos = 0
    /\ mention = <<>>
    /\ resolved_mentions = <<>>
    /\ last_mention_query = <<>>
    /\ issued_lookup = <<>>
    /\ phase = "input"
    /\ input \in DecodeTrees
    /\ output = <<>>

Decode ==
    /\ phase = "input"
    /\ output' = adf_to_text(input)
    /\ phase' = "done"
    /\ UNCHANGED <<input, editor_vars, issued_lookup>>

NextDecode == Decode

SpecDecode == InitDecode /\ [][NextDecode]_vars

-----------------------------------------------------------------------------
(* jira.rs: text_to_adf_nodes on segments with both kinds of URL *)

\* most tokens of a segment handed to text_to_adf_nodes
MaxSegmentTokens == 3

SegmentTokens == {<<"a">>, <<" ">>, Http, Https}

RECURSIVE Segments(_)
Segments(n) ==
    IF n = 0 THEN {<<>>}
    ELSE LET shorter == Segments(n - 1)
         IN  shorter \cup {t \o tok : t \in shorter, tok \in SegmentTokens}

InitNodes ==
    /\ mode = "TicketDetail"
    /\ comment_input = <<>>
    /\ cursor_pos = 0
    /\ mention = <<>>
    /\ resolved_mentions = <<>>
    /\ last_mention_query = <<>>
    /\ issued_lookup = <<>>
    /\ phase = "input"
    /\ input \in Segments(MaxSegmentTokens)
    /\ output = <<>>

SplitNodes ==
    /\ phase = "input"
    /\ output' = text_to_adf_nodes(input)
    /\ phase' = "done"
    /\ UNCHANGED <<input, editor_vars, issued_lookup>>

NextNodes == SplitNodes

SpecNodes == InitNodes /\ [][NextNodes]_vars

-----------------------------------------------------------------------------
(* jira.rs: decoding a text node with marks *)

\* most marks on a text node
MaxMarks == 2

\* underline is a mark the decoder has no delimiter for
MarkTypes == {"strong", "em", "code", "strike", "link", "underline"}

RECURSIVE MarkLists(_)
MarkLists(n) ==
    IF n = 0 THEN {<<>>}
    ELSE LET shorter == MarkLists(n - 1)
         IN  shorter \cup {Append(ms, m) : ms \in shorter, m \in MarkTypes}

\* text nodes with a list of marks, and text nodes without the marks field
MarkedTextNodes ==
    {[type |-> "text", text |-> t, marks |-> ms] :
        t \in {<<>>, <<"a">>, <<"a", " ">>}, ms \in MarkLists(MaxMarks)}
    \cup {[type |-> "text", text |-> t] : t \in {<<>>, <<"a">>, <<"a", " ">>}}

InitMarks ==
    /\ mode = "TicketDetail"
    /\ comment_input = <<>>
    /\ cursor_pos = 0
    /\ mention = <<>>
    /\ resolved_mentions = <<>>
    /\ last_mention_query = <<>>
    /\ issued_lookup = <<>>
    /\ phase = "input"
    /\ input \in MarkedTextNodes
    /\ output = <<>>

DecodeText ==
    /\ phase = "input"
    /\ output' = adf_to_text(input)
    /\ phase' = "done"
    /\ UNCHANGED <<input, editor_vars, issued_lookup>>

NextMarks == DecodeText

SpecMarks == InitMarks /\ [][NextMarks]_vars

-----------------------------------------------------------------------------
(* The renderer: markdown_to_lines of ui.rs *)

\* the characters U+2502 and U+2022, which a string of the module cannot hold
Bar == "bar"
Bullet == "bullet"

\* str::starts_with
starts_with(s, p) == IsPrefix(p, s)

Fence == <<Backtick, Backtick, Backtick>>

IsAsciiDigit(c) == \E i \in 1..10 : Digits[i] = c

\* try_parse_numbered_item: <<>> for None, <<[num, item_text]>> for Some
try_parse_numbered_item(line) ==
    IF ~starts_with(line, <<" ", " ">>) THEN <<>>
    ELSE LET trimmed == Slice(line, 2, Len(line))
             dot_pos == Find(trimmed, <<".", " ">>)
             num == Slice(trimmed, 0, dot_pos)
         IN  IF dot_pos = -1 THEN <<>>
             ELSE IF num # <<>> /\ Len(num) <= 4
                     /\ \A i \in 1..Len(num) : IsAsciiDigit(num[i])
             THEN <<[num |-> num,
                     item_text |-> Slice(trimmed, dot_pos + 2, Len(trimmed))]>>
             ELSE <<>>

\* the chars of the spans of a prefix, counted
prefix_width(prefix) == Len(Concat([i \in 1..Len(prefix) |-> prefix[i].content]))

\* the content is wrapped to the whole width, the prefix not taken off
avail_whole_width(width, prefix_w) == width

\* width.saturating_sub(prefix_w)
saturating_sub(width, prefix_w) == IF width >= prefix_w THEN width - prefix_w ELSE 0

\* emit_prefixed_wrapped: the rows pushed
emit_prefixed_wrapped(prefix_first, prefix_cont, content, width) ==
    LET avail == saturating_sub(width, prefix_width(prefix_first))
        wrapped == word_wrap(content, avail)
    IN  [i \in 1..Len(wrapped) |->
            (IF i = 1 THEN prefix_first ELSE prefix_cont)
            \o parse_inline_markdown(wrapped[i])]

\* the branch of markdown_to_lines a line outside a code block takes: the style
\* of a heading or a rule, or the prefixes and the content handed to
\* emit_prefixed_wrapped; a regular line has no prefix
line_plan(raw_line) ==
    LET plan(kind, style, prefix_first, prefix_cont, content) ==
            [kind |-> kind, style |-> style, prefix_first |-> prefix_first,
             prefix_cont |-> prefix_cont, content |-> content]
        heading(from, style) ==
            plan("heading", style, <<>>, <<>>, Slice(raw_line, from, Len(raw_line)))
        bar == Span(<<Bar, " ">>, "bar")
        numbered == try_parse_numbered_item(raw_line)
    IN  IF starts_with(raw_line, <<"#", "#", "#", " ">>) THEN heading(4, "h3")
        ELSE IF starts_with(raw_line, <<"#", "#", " ">>) THEN heading(3, "h2")
        ELSE IF starts_with(raw_line, <<"#", " ">>) THEN heading(2, "h1")
        ELSE IF starts_with(raw_line, <<">", " ">>) THEN
            LET inner == Slice(raw_line, 2, Len(raw_line))
                inner_numbered == try_parse_numbered_item(inner)
            IN  IF starts_with(inner, <<" ", " ", "-", " ">>)
                THEN plan("prefixed", "",
                        <<bar, Span(<<Bullet, " ">>, "accent")>>,
                        <<bar, Span(<<" ", " ">>, "plain")>>,
                        Slice(inner, 4, Len(inner)))
                ELSE IF inner_numbered # <<>>
                THEN LET num_prefix == inner_numbered[1].num \o <<".", " ">>
                     IN  plan("prefixed", "",
                            <<bar, Span(num_prefix, "accent")>>,
                            <<bar, Span(repeat(" ", Len(num_prefix)), "plain")>>,
                            inner_numbered[1].item_text)
                ELSE plan("prefixed", "", <<bar>>, <<bar>>, inner)
        ELSE IF starts_with(raw_line, <<" ", " ", "-", " ">>)
        THEN plan("prefixed", "",
                <<Span(<<" ", " ">>, "plain"), Span(<<Bullet, " ">>, "accent")>>,
                <<Span(<<" ", " ", " ", " ">>, "plain")>>,
                Slice(raw_line, 4, Len(raw_line)))
        ELSE IF numbered # <<>>
        THEN LET num_prefix == numbered[1].num \o <<".", " ">>
             IN  plan("prefixed", "",
                    <<Span(<<" ", " ">>, "plain"), Span(num_prefix, "accent")>>,
                    <<Span(repeat(" ", 2 + Len(num_prefix)), "plain")>>,
                    numbered[1].item_text)
        ELSE IF starts_with(raw_line, repeat(BoxLine, 4))
        THEN plan("rule", "rule", <<>>, <<>>, raw_line)
        ELSE plan("regular", "", <<>>, <<>>, raw_line)

\* the rows of a line that is neither a fence nor inside a code block: a heading
\* wrapped to the width in its style, a rule as it is, a regular line wrapped to
\* the width and parsed, which is emit_prefixed_wrapped without prefixes
render_line(raw_line, width) ==
    LET p == line_plan(raw_line)
    IN  IF p.kind = "rule" THEN <<<<Span(raw_line, p.style)>>>>
        ELSE IF p.kind = "heading"
        THEN LET w == word_wrap(p.content, width)
             IN  [i \in 1..Len(w) |-> <<Span(w[i], p.style)>>]
        ELSE emit_prefixed_wrapped(p.prefix_first, p.prefix_cont, p.content, width)

\* the label row of a code fence
fence_label(raw_line, opening) ==
    LET lang == Slice(raw_line, 3, Len(raw_line))
    IN  IF opening /\ lang # <<>>
        THEN repeat(BoxLine, 3) \o <<" ">> \o lang \o <<" ">> \o repeat(BoxLine, 3)
        ELSE repeat(BoxLine, 3)

RECURSIVE render_lines(_, _, _)
\* the for loop over text.lines(), in_code_block carried from line to line
render_lines(raw_lines, in_code_block, width) ==
    IF raw_lines = <<>> THEN <<>>
    ELSE LET raw_line == Head(raw_lines)
         IN  IF starts_with(raw_line, Fence)
             THEN <<<<Span(fence_label(raw_line, ~in_code_block), "fence")>>>>
                  \o render_lines(Tail(raw_lines), ~in_code_block, width)
             ELSE IF in_code_block
             THEN <<<<Span(<<" ", " ">> \o raw_line, "codeline")>>>>
                  \o render_lines(Tail(raw_lines), in_code_block, width)
             ELSE render_line(raw_line, width)
                  \o render_lines(Tail(raw_lines), in_code_block, width)

markdown_to_lines(text, width) ==
    LET lines == render_lines(str_lines(text), FALSE, width)
    IN  IF lines = <<>> THEN <<<<Span(<<>>, "plain")>>>> ELSE lines

\* longest content of a prefixed line handed to markdown_to_lines
MaxRenderLen == 5

\* widest area handed to markdown_to_lines
MaxRenderWidth == 7

\* the markers of bullet, numbered and blockquote lines, also nested in a quote
RenderMarkers ==
    {<<" ", " ", "-", " ">>,
     <<" ", " ", "1", ".", " ">>,
     <<" ", " ", "1", "2", ".", " ">>,
     <<">", " ">>,
     <<">", " ", " ", " ", "-", " ">>,
     <<">", " ", " ", " ", "1", ".", " ">>}

InitRender ==
    /\ mode = "TicketDetail"
    /\ comment_input = <<>>
    /\ cursor_pos = 0
    /\ mention = <<>>
    /\ resolved_mentions = <<>>
    /\ last_mention_query = <<>>
    /\ issued_lookup = <<>>
    /\ phase = "input"
    /\ input \in [marker : RenderMarkers,
                  content : StringsUpTo(WrapChars, MaxRenderLen),
                  width : 0..MaxRenderWidth]
    /\ output = <<>>

RenderLine ==
    /\ phase = "input"
    /\ output' = markdown_to_lines(input.marker \o input.content, input.width)
    /\ phase' = "done"
    /\ UNCHANGED <<input, editor_vars, issued_lookup>>

NextRender == RenderLine

SpecRender == InitRender /\ [][NextRender]_vars

\* the link map built after the detail lines: for every line the text of its
\* first span starting with http:// or https://, if any
link_map(lines) ==
    [k \in 1..Len(lines) |->
        LET found == {i \in 1..Len(lines[k]) :
                        \/ starts_with(lines[k][i].content, Http)
                        \/ starts_with(lines[k][i].content, Https)}
        IN  IF found = {} THEN <<>>
            ELSE <<lines[k][CHOOSE i \in found : \A j \in found : i <= j].content>>]

\* App::open_link_at: the url handed to open::that, if any (links[i + 1] is
\* link_map.get(i))
open_link_at(links, content_y, content_h, detail_scroll, screen_y) ==
    IF screen_y < content_y \/ screen_y >= content_y + content_h THEN <<>>
    ELSE LET line_idx == (screen_y - content_y) + detail_scroll
         IN  IF line_idx < Len(links) THEN links[line_idx + 1] ELSE <<>>

\* most words of a rendered text
MaxLinkTokens == 2

\* widest area of the rendered text
MaxLinkWidth == 11

\* most rows of the content area, and its first screen row
MaxContentHeight == 2
MaxContentY == 1

LinkUrl == Https \o <<"x">>

\* a word, a bare URL, and [text](url) with a display text, with the URL as
\* display text, and with no display text
LinkTokens ==
    {<<"a">>,
     LinkUrl,
     <<"[", "a", "]", "(">> \o LinkUrl \o <<")">>,
     <<"[">> \o LinkUrl \o <<"]", "(">> \o LinkUrl \o <<")">>,
     <<"[", "]", "(">> \o LinkUrl \o <<")">>}

RECURSIVE JoinWords(_)
JoinWords(words) ==
    IF words = <<>> THEN <<>>
    ELSE IF Len(words) = 1 THEN words[1]
    ELSE words[1] \o <<" ">> \o JoinWords(Tail(words))

LinkTexts ==
    {JoinWords(ws) : ws \in UNION {[1..n -> LinkTokens] : n \in 0..MaxLinkTokens}}

InitLinks ==
    /\ mode = "TicketDetail"
    /\ comment_input = <<>>
    /\ cursor_pos = 0
    /\ mention = <<>>
    /\ resolved_mentions = <<>>
    /\ last_mention_query = <<>>
    /\ issued_lookup = <<>>
    /\ phase = "input"
    /\ input \in [text : LinkTexts, width : 0..MaxLinkWidth,
                  content_y : 0..MaxContentY, content_h : 1..MaxContentHeight]
    /\ output = <<>>

\* the detail view is drawn: the lines and the link map
DrawDetail ==
    /\ phase = "input"
    /\ \E lines \in {markdown_to_lines(input.text, input.width)} :
          output' = [lines |-> lines, link_map |-> link_map(lines),
                     clicked |-> <<>>, opened |-> <<>>]
    /\ phase' = "drawn"
    /\ UNCHANGED <<input, editor_vars, issued_lookup>>

\* a mouse click on a screen row, the view scrolled to some line
ClickLink ==
    /\ phase = "drawn"
    /\ \E screen_y \in 0..(MaxContentY + MaxContentHeight),
          detail_scroll \in 0..(Len(output.lines) - 1) :
          output' = [output EXCEPT
              !.clicked = IF screen_y < input.content_y
                             \/ screen_y >= input.content_y + input.content_h
                          THEN <<>>
                          ELSE <<(screen_y - input.content_y) + detail_scroll>>,
              !.opened = open_link_at(output.link_map, input.content_y,
                                      input.content_h, detail_scroll, screen_y)]
    /\ phase' = "done"
    /\ UNCHANGED <<input, editor_vars, issued_lookup>>

NextLinks == DrawDetail \/ ClickLink

SpecLinks == InitLinks /\ [][NextLinks]_vars

\* longest text of a code block
MaxCodeLen == 3

\* widest area the decoded document is rendered in
MaxCodeWidth == 4

\* a codeBlock node over one text node, with or without a language
CodeBlockNode(code, lang) ==
    IF lang = <<>>
    THEN [type |-> "codeBlock", content |-> <<[type |-> "text", text |-> code]>>]
    ELSE [type |-> "codeBlock", attrs |-> [language |-> lang[1]],
          content |-> <<[type |-> "text", text |-> code]>>]

\* a document of a code block followed by a paragraph
CodeBlockDoc(code, lang, para) ==
    [type |-> "doc",
     content |-> <<CodeBlockNode(code, lang),
                   [type |-> "paragraph",
                    content |-> <<[type |-> "text", text |-> para]>>]>>]

InitCodeBlock ==
    /\ mode = "TicketDetail"
    /\ comment_input = <<>>
    /\ cursor_pos = 0
    /\ mention = <<>>
    /\ resolved_mentions = <<>>
    /\ last_mention_query = <<>>
    /\ issued_lookup = <<>>
    /\ phase = "input"
    /\ input \in [code : StringsUpTo({"a", "\n"}, MaxCodeLen),
                  lang : {<<>>, <<<<"r">>>>},
                  para : {<<"b">>, <<"b", " ", "b">>},
                  width : 0..MaxCodeWidth]
    /\ output = <<>>

\* the document is decoded and the text rendered
DecodeAndRender ==
    /\ phase = "input"
    /\ \E text \in {adf_to_text(CodeBlockDoc(input.code, input.lang, input.para))} :
          output' = [text |-> text, lines |-> markdown_to_lines(text, input.width)]
    /\ phase' = "done"
    /\ UNCHANGED <<input, editor_vars, issued_lookup>>

NextCodeBlock == DecodeAndRender

SpecCodeBlock == InitCodeBlock /\ [][NextCodeBlock]_vars

-----------------------------------------------------------------------------
(* app.rs: sending, editing and deleting comments *)

\* most comments of the open ticket
MaxComments == 2

\* comments the tracker holds: two of the running account, one of another
OwnComment == [id |-> "c1", author_account_id |-> "u1", body |-> <<" ", "a">>]
OtherComment == [id |-> "c2", author_account_id |-> "u2", body |-> <<"a">>]
OwnSecond == [id |-> "c3", author_account_id |-> "u1", body |-> <<"a">>]

\* the lists of distinct comments of a ticket
CommentLists ==
    {cs \in UNION {[1..n -> {OwnComment, OtherComment, OwnSecond}] : n \in 0..MaxComments} :
        \A i, j \in DOMAIN cs : i # j => cs[i] # cs[j]}

\* App::build_mention_inserts
build_mention_inserts(resolved) ==
    [i \in 1..Len(resolved) |->
        [start |-> resolved[i].start_pos, len |-> resolved[i].len,
         account_id |-> resolved[i].account_id,
         display_name |-> resolved[i].display_name]]

\* a request to the tracker about a comment of the open ticket
Request(kind, comment_id, text, mentions) ==
    [kind |-> kind, comment_id |-> comment_id, text |-> text, mentions |-> mentions]

\* App::refresh_detail: the comment lists detail may hold afterwards, the old one
\* when the fetch fails
refresh_detail(fields) == fields.fetchable \cup {fields.comments}

\* detail.comments.get(idx) for the selected comment
selected_comment(fields) ==
    IF fields.detail_comment_selected = <<>> THEN <<>>
    ELSE IF fields.detail_comment_selected[1] < Len(fields.comments)
    THEN <<fields.comments[fields.detail_comment_selected[1] + 1]>>
    ELSE <<>>

\* Mode::TicketDetail, key 'n'
detail_next_comment ==
    /\ mode = "TicketDetail"
    /\ LET count == Len(input.comments)
       IN  input' = IF count = 0 THEN input
                    ELSE [input EXCEPT !.detail_comment_selected =
                            IF @ = <<>> THEN <<0>> ELSE <<Min(@[1] + 1, count - 1)>>]
    /\ output' = <<>>
    /\ UNCHANGED <<editor_vars, issued_lookup, phase>>

\* Mode::TicketDetail, key 'p'
detail_prev_comment ==
    /\ mode = "TicketDetail"
    /\ input' = [input EXCEPT !.detail_comment_selected =
                    IF @ = <<>> \/ @ = <<0>> THEN <<>> ELSE <<@[1] - 1>>]
    /\ output' = <<>>
    /\ UNCHANGED <<editor_vars, issued_lookup, phase>>

\* the key 'e' opening the editor on a comment of any author
start_editing_any_comment ==
    /\ mode = "TicketDetail"
    /\ output' = <<>>
    /\ LET comment == selected_comment(input)
       IN  IF comment = <<>>
           THEN UNCHANGED <<editor_vars, issued_lookup, phase, input>>
           ELSE /\ comment_input' = comment[1].body
                /\ cursor_pos' = Len(comment[1].body)
                /\ input' = [input EXCEPT !.editing_comment_id = <<comment[1].id>>]
                /\ mention' = <<>>
                /\ last_mention_query' = <<>>
                /\ resolved_mentions' = <<>>
                /\ mode' = "DetailEditingComment"
                /\ UNCHANGED <<issued_lookup, phase>>

\* Mode::TicketDetail, key 'e'
start_editing_comment ==
    /\ mode = "TicketDetail"
    /\ output' = <<>>
    /\ LET comment == selected_comment(input)
       IN  IF comment = <<>> \/ comment[1].author_account_id # current_account_id
           THEN UNCHANGED <<editor_vars, issued_lookup, phase, input>>
           ELSE /\ comment_input' = comment[1].body
                /\ cursor_pos' = Len(comment[1].body)
                /\ input' = [input EXCEPT !.editing_comment_id = <<comment[1].id>>]
                /\ mention' = <<>>
                /\ last_mention_query' = <<>>
                /\ resolved_mentions' = <<>>
                /\ mode' = "DetailEditingComment"
                /\ UNCHANGED <<issued_lookup, phase>>

\* Mode::TicketDetail, key 'x'
confirm_delete_comment ==
    /\ mode = "TicketDetail"
    /\ output' = <<>>
    /\ LET comment == selected_comment(input)
       IN  IF \/ input.detail_comment_selected = <<>>
              \/ (comment # <<>> /\ comment[1].author_account_id # current_account_id)
           THEN UNCHANGED mode
           ELSE mode' = "DetailConfirmDelete"
    /\ UNCHANGED <<comment_input, cursor_pos, mention, resolved_mentions,
                   last_mention_query, issued_lookup, phase, input>>

\* Mode::DetailConfirmDelete, key 'y': App::execute_delete_comment, the tracker
\* answering the delete request with ok
execute_delete_comment(ok) ==
    /\ mode = "DetailConfirmDelete"
    /\ LET comment == selected_comment(input)
       IN  IF comment = <<>>
           THEN /\ output' = <<>>
                /\ UNCHANGED <<mode, input>>
           ELSE /\ output' = <<Request("delete", <<comment[1].id>>, <<>>, <<>>)>>
                /\ mode' = "TicketDetail"
                /\ IF ok
                   THEN \E fetched \in refresh_detail(input) :
                           input' = [input EXCEPT !.detail_comment_selected = <<>>,
                                                  !.comments = fetched]
                   ELSE UNCHANGED input
    /\ UNCHANGED <<comment_input, cursor_pos, mention, resolved_mentions,
                   last_mention_query, issued_lookup, phase>>

\* Enter in normal comment editing, Mode::DetailAddingComment:
\* App::submit_comment, the tracker answering the request with ok
submit_comment(ok) ==
    /\ NormalEditing
    /\ mode = "DetailAddingComment"
    /\ LET text == Trim(comment_input)
       IN  IF text = <<>>
           THEN /\ comment_input' = <<>>
                /\ input' = [input EXCEPT !.editing_comment_id = <<>>]
                /\ mention' = <<>>
                /\ last_mention_query' = <<>>
                /\ resolved_mentions' = <<>>
                /\ output' = <<>>
           ELSE /\ output' = <<Request("add", <<>>, text,
                                       build_mention_inserts(resolved_mentions))>>
                /\ IF ok
                   THEN /\ comment_input' = <<>>
                        /\ mention' = <<>>
                        /\ resolved_mentions' = <<>>
                        /\ \E fetched \in refresh_detail(input) :
                              input' = [input EXCEPT !.comments = fetched]
                   ELSE UNCHANGED <<comment_input, mention, resolved_mentions, input>>
                /\ UNCHANGED last_mention_query
    /\ mode' = "TicketDetail"
    /\ UNCHANGED <<cursor_pos, issued_lookup, phase>>

\* Enter in normal comment editing, Mode::DetailEditingComment:
\* App::save_edited_comment, the tracker answering the request with ok
save_edited_comment(ok) ==
    /\ NormalEditing
    /\ mode = "DetailEditingComment"
    /\ LET text == Trim(comment_input)
       IN  IF text = <<>>
           THEN /\ comment_input' = <<>>
                /\ input' = [input EXCEPT !.editing_comment_id = <<>>]
                /\ mention' = <<>>
                /\ last_mention_query' = <<>>
                /\ resolved_mentions' = <<>>
                /\ output' = <<>>
                /\ mode' = "TicketDetail"
           ELSE IF input.editing_comment_id = <<>>
           THEN /\ output' = <<>>
                /\ UNCHANGED <<comment_input, input, mention, last_mention_query,
                               resolved_mentions, mode>>
           ELSE /\ output' = <<Request("update", input.editing_comment_id, text,
                                       build_mention_inserts(resolved_mentions))>>
                /\ IF ok
                   THEN /\ comment_input' = <<>>
                        /\ mention' = <<>>
                        /\ resolved_mentions' = <<>>
                        /\ \E fetched \in refresh_detail(input) :
                              input' = [input EXCEPT !.editing_comment_id = <<>>,
                                                     !.comments = fetched]
                   ELSE UNCHANGED <<comment_input, mention, resolved_mentions, input>>
                /\ mode' = "TicketDetail"
                /\ UNCHANGED last_mention_query
    /\ UNCHANGED <<cursor_pos, issued_lookup, phase>>

\* a transition or a summary edit done on the open ticket: App::refresh_detail
RefreshDetail ==
    /\ mode = "TicketDetail"
    /\ \E fetched \in refresh_detail(input) :
          input' = [input EXCEPT !.comments = fetched]
    /\ output' = <<>>
    /\ UNCHANGED <<editor_vars, issued_lookup, phase>>

\* the editor opened on a ticket with one comment of the running account, selected
InitSubmit ==
    /\ mode = "TicketDetail"
    /\ comment_input = <<>>
    /\ cursor_pos = 0
    /\ mention = <<>>
    /\ resolved_mentions = <<>>
    /\ last_mention_query = <<>>
    /\ issued_lookup = <<>>
    /\ phase = "submit"
    /\ input = CommentFields(<<OwnComment>>, <<0>>, <<>>, {<<OwnComment>>})
    /\ output = <<>>

NextSubmit ==
    \/ NextSucceeding
    \/ start_editing_comment
    \/ \E ok \in BOOLEAN : submit_comment(ok)
    \/ \E ok \in BOOLEAN : save_edited_comment(ok)

SpecSubmit == InitSubmit /\ [][NextSubmit]_vars

\* the comments of a ticket: selecting, editing and deleting them
InitComments ==
    /\ mode = "TicketDetail"
    /\ comment_input = <<>>
    /\ cursor_pos = 0
    /\ mention = <<>>
    /\ resolved_mentions = <<>>
    /\ last_mention_query = <<>>
    /\ issued_lookup = <<>>
    /\ phase = "comments"
    /\ input \in {CommentFields(cs, <<>>, <<>>, CommentLists) : cs \in CommentLists}
    /\ output = <<>>

NextComments ==
    \/ detail_next_comment
    \/ detail_prev_comment
    \/ RefreshDetail
    \/ start_editing_comment
    \/ confirm_delete_comment
    \/ \E ok \in BOOLEAN : execute_delete_comment(ok)
    \/ cancel_comment_action
    \/ KeyBackspace
    \/ \E c \in PlainChars \cup {" "} : KeyChar(c)
    \/ \E ok \in BOOLEAN : save_edited_comment(ok)

SpecComments == InitComments /\ [][NextComments]_vars

-----------------------------------------------------------------------------
(* app.rs: the issue list, its search filter and its sort order *)

\* most issues a fetch returns
MaxIssues == 2

\* longest search input
MaxSearchLen == 2

SearchChars == {"a", "B"}

\* the issues the tracker holds
Issue(key, summary, priority) == [key |-> key, summary |-> summary, priority |-> priority]
IssueA2 == Issue(<<"a", "-", "2">>, <<"b">>, "High")
IssueA1 == Issue(<<"a", "-", "1">>, <<"a", "b">>, "Low")
IssueB1 == Issue(<<"b", "-", "1">>, <<"a">>, "Blocker")

\* what fetch_issues may return: lists of distinct issues
IssueLists ==
    {is \in UNION {[1..n -> {IssueA2, IssueA1, IssueB1}] : n \in 0..MaxIssues} :
        \A i, j \in DOMAIN is : i # j => is[i] # is[j]}

DisplayRow(issue, original_index) == [issue |-> issue, original_index |-> original_index]

\* SortCriteria::ALL
SortCriteriaAll == <<"Default", "Board", "Priority", "Muted", "Highlight">>

\* the characters of issue keys in byte order
KeyChars == <<"-", "0", "1", "2", "3", "4", "5", "6", "7", "8", "9", "a", "b">>
CharCode(c) == CHOOSE i \in DOMAIN KeyChars : KeyChars[i] = c

\* Ord::cmp on numbers: -1, 0 or 1
cmp(a, b) == IF a < b THEN -1 ELSE IF a > b THEN 1 ELSE 0

\* Ordering::then
then(first, second) == IF first # 0 THEN first ELSE second

RECURSIVE str_cmp(_, _)
\* Ord::cmp on strings
str_cmp(a, b) ==
    IF a = <<>> \/ b = <<>> THEN cmp(Len(a), Len(b))
    ELSE then(cmp(CharCode(Head(a)), CharCode(Head(b))), str_cmp(Tail(a), Tail(b)))

RECURSIVE parse_u64(_, _)
\* str::parse::<u64>: the number read after acc, -1 when a character is no digit
parse_u64(s, acc) ==
    IF s = <<>> THEN acc
    ELSE IF \E d \in DOMAIN Digits : Digits[d] = Head(s)
    THEN parse_u64(Tail(s), acc * 10 + (CHOOSE d \in DOMAIN Digits : Digits[d] = Head(s)) - 1)
    ELSE -1

\* split_key: the project prefix and the number of an issue key
split_key(key) ==
    LET dashes == {i \in DOMAIN key : key[i] = "-"}
    IN  IF dashes = {} THEN [prefix |-> key, num |-> 0]
        ELSE LET at == CHOOSE i \in dashes : \A j \in dashes : j <= i
                 num == SubSeq(key, at + 1, Len(key))
                 parsed == IF num = <<>> THEN -1 ELSE parse_u64(num, 0)
             IN  [prefix |-> SubSeq(key, 1, at - 1),
                  num |-> IF parsed = -1 THEN 0 ELSE parsed]

priority_rank(p) ==
    CASE p = "Blocker" -> 6
      [] p \in {"Critical", "Highest"} -> 5
      [] p \in {"Major", "High"} -> 4
      [] p \in {"Normal", "Medium"} -> 3
      [] p \in {"Minor", "Low"} -> 2
      [] p \in {"Trivial", "Lowest"} -> 1
      [] OTHER -> 0

\* highlight_rank of the colour recorded for the key, if any
highlight_rank(highlights, key) ==
    IF [key |-> key, color |-> "orange"] \in highlights THEN 0
    ELSE IF [key |-> key, color |-> "green"] \in highlights THEN 1
    ELSE 2

\* the comparison sort_rows sorts all_rows by
sort_cmp(criteria, muted, highlights, a, b) ==
    CASE criteria = "Default" -> cmp(a.original_index, b.original_index)
      [] criteria = "Board" ->
            then(str_cmp(split_key(a.issue.key).prefix, split_key(b.issue.key).prefix),
                 cmp(split_key(a.issue.key).num, split_key(b.issue.key).num))
      [] criteria = "Priority" ->
            then(cmp(priority_rank(b.issue.priority), priority_rank(a.issue.priority)),
                 cmp(a.original_index, b.original_index))
      [] criteria = "Muted" ->
            then(cmp(IF a.issue.key \in muted THEN 1 ELSE 0,
                     IF b.issue.key \in muted THEN 1 ELSE 0),
                 cmp(a.original_index, b.original_index))
      [] OTHER ->
            then(cmp(highlight_rank(highlights, a.issue.key),
                     highlight_rank(highlights, b.issue.key)),
                 cmp(a.original_index, b.original_index))

\* App::sort_rows: all_rows after the stable sort
sort_rows(all_rows, criteria, muted, highlights) ==
    LET n == Len(all_rows)
        place(i) == 1 + Cardinality({j \in 1..n :
                        LET c == sort_cmp(criteria, muted, highlights,
                                          all_rows[j], all_rows[i])
                        IN  c < 0 \/ (c = 0 /\ j < i)})
    IN  [k \in 1..n |-> all_rows[CHOOSE i \in 1..n : place(i) = k]]

\* the selected index left as it is, although it may lie past the last row
selected_unclamped(rows, selected) == selected

\* the end of apply_search_filter and clear_search: selected kept inside rows
clamp_selected(rows, selected) ==
    IF rows = <<>> THEN 0
    ELSE IF selected >= Len(rows) THEN Len(rows) - 1
    ELSE selected

\* format!("{} {}", row.issue.key, row.issue.summary)
row_haystack(row) == row.issue.key \o <<" ">> \o row.issue.summary

\* App::apply_search_filter on the list fields
apply_search_filter(fields) ==
    LET rows == IF fields.search_input = <<>> THEN fields.all_rows
                ELSE SelectSeq(fields.all_rows,
                        LAMBDA row : fuzzy_match(row_haystack(row),
                                                 fields.search_input).found)
    IN  [fields EXCEPT !.rows = rows, !.selected = clamp_selected(rows, @)]

\* the list fields of App
ListFields(muted, highlights) ==
    [all_rows |-> <<>>, rows |-> <<>>, selected |-> 0, search_input |-> <<>>,
     sort_criteria |-> "Default", sort_selected |-> 0,
     muted_keys |-> muted, highlighted_keys |-> highlights]

\* Mode::Normal, key 'r': App::refresh, fetch_issues answering with ok
refresh(ok) ==
    /\ mode = "Normal"
    /\ IF ok
       THEN \E issues \in IssueLists :
               LET all == [i \in 1..Len(issues) |-> DisplayRow(issues[i], i - 1)]
               IN  input' = apply_search_filter(
                       [input EXCEPT !.all_rows =
                           sort_rows(all, input.sort_criteria, input.muted_keys,
                                     input.highlighted_keys)])
       ELSE UNCHANGED input
    /\ UNCHANGED <<editor_vars, issued_lookup, phase, output>>

\* Up in Mode::Normal and Mode::Searching
move_up ==
    /\ mode \in {"Normal", "Searching"}
    /\ input' = [input EXCEPT !.selected = IF @ > 0 THEN @ - 1 ELSE @]
    /\ UNCHANGED <<editor_vars, issued_lookup, phase, output>>

\* Down in Mode::Normal and Mode::Searching
move_down ==
    /\ mode \in {"Normal", "Searching"}
    /\ input' = [input EXCEPT !.selected =
                    IF input.rows # <<>> /\ @ < Len(input.rows) - 1 THEN @ + 1 ELSE @]
    /\ UNCHANGED <<editor_vars, issued_lookup, phase, output>>

\* Mode::Normal, key '/'
start_search ==
    /\ mode = "Normal"
    /\ input' = [input EXCEPT !.search_input = <<>>]
    /\ mode' = "Searching"
    /\ UNCHANGED <<comment_input, cursor_pos, mention, resolved_mentions,
                   last_mention_query, issued_lookup, phase, output>>

\* Mode::Searching, Backspace
SearchBackspace ==
    /\ mode = "Searching"
    /\ input' = apply_search_filter(
           [input EXCEPT !.search_input = SubSeq(@, 1, Len(@) - 1)])
    /\ UNCHANGED <<editor_vars, issued_lookup, phase, output>>

\* Mode::Searching, a character
SearchChar(c) ==
    /\ mode = "Searching"
    /\ Len(input.search_input) < MaxSearchLen
    /\ input' = apply_search_filter([input EXCEPT !.search_input = Append(@, c)])
    /\ UNCHANGED <<editor_vars, issued_lookup, phase, output>>

\* Mode::Searching, Enter
confirm_search ==
    /\ mode = "Searching"
    /\ mode' = "Normal"
    /\ UNCHANGED <<comment_input, cursor_pos, mention, resolved_mentions,
                   last_mention_query, issued_lookup, harness_vars>>

\* Mode::Searching, Esc
clear_search ==
    /\ mode = "Searching"
    /\ input' = [input EXCEPT !.search_input = <<>>,
                              !.rows = input.all_rows,
                              !.selected = clamp_selected(input.all_rows, @)]
    /\ mode' = "Normal"
    /\ UNCHANGED <<comment_input, cursor_pos, mention, resolved_mentions,
                   last_mention_query, issued_lookup, phase, output>>

\* Mode::Normal, key 'o'
open_sort_picker ==
    /\ mode = "Normal"
    /\ input' = [input EXCEPT !.sort_selected =
                    (CHOOSE i \in DOMAIN SortCriteriaAll :
                        SortCriteriaAll[i] = input.sort_criteria) - 1]
    /\ mode' = "SortPicker"
    /\ UNCHANGED <<comment_input, cursor_pos, mention, resolved_mentions,
                   last_mention_query, issued_lookup, phase, output>>

sort_picker_up ==
    /\ mode = "SortPicker"
    /\ input' = [input EXCEPT !.sort_selected = IF @ > 0 THEN @ - 1 ELSE @]
    /\ UNCHANGED <<editor_vars, issued_lookup, phase, output>>

sort_picker_down ==
    /\ mode = "SortPicker"
    /\ input' = [input EXCEPT !.sort_selected =
                    IF @ < Len(SortCriteriaAll) - 1 THEN @ + 1 ELSE @]
    /\ UNCHANGED <<editor_vars, issued_lookup, phase, output>>

\* Mode::SortPicker, Enter
apply_sort ==
    /\ mode = "SortPicker"
    /\ LET criteria == SortCriteriaAll[input.sort_selected + 1]
       IN  input' = apply_search_filter(
               [input EXCEPT !.sort_criteria = criteria,
                             !.all_rows = sort_rows(@, criteria, input.muted_keys,
                                                    input.highlighted_keys)])
    /\ mode' = "Normal"
    /\ UNCHANGED <<comment_input, cursor_pos, mention, resolved_mentions,
                   last_mention_query, issued_lookup, phase, output>>

\* Mode::SortPicker, Esc
cancel_sort_picker ==
    /\ mode = "SortPicker"
    /\ mode' = "Normal"
    /\ UNCHANGED <<comment_input, cursor_pos, mention, resolved_mentions,
                   last_mention_query, issued_lookup, harness_vars>>

InitRows ==
    /\ mode = "Normal"
    /\ comment_input = <<>>
    /\ cursor_pos = 0
    /\ mention = <<>>
    /\ resolved_mentions = <<>>
    /\ last_mention_query = <<>>
    /\ issued_lookup = <<>>
    /\ phase = "rows"
    /\ input \in {ListFields({}, {}),
                  ListFields({IssueA2.key}, {[key |-> IssueB1.key, color |-> "orange"]})}
    /\ output = <<>>

NextRows ==
    \/ \E ok \in BOOLEAN : refresh(ok)
    \/ move_up
    \/ move_down
    \/ start_search
    \/ SearchBackspace
    \/ \E c \in SearchChars : SearchChar(c)
    \/ confirm_search
    \/ clear_search
    \/ open_sort_picker
    \/ sort_picker_up
    \/ sort_picker_down
    \/ apply_sort
    \/ cancel_sort_picker

SpecRows == InitRows /\ [][NextRows]_vars

-----------------------------------------------------------------------------
(* Mention tracking: claims C1 - C4 *)

\* the span lies in the buffer and covers exactly "@" + display_name
SpanReads(buf, rm) ==
    /\ rm.start_pos + rm.len <= Len(buf)
    /\ SubSeq(buf, rm.start_pos + 1, rm.start_pos + rm.len) = <<"@">> \o rm.display_name

HasSpan(rms, rm) == \E j \in DOMAIN rms : rms[j] = rm

PlainInsert == \E c \in PlainChars \cup {" "} : KeyChar(c)

\* C1: a plain character inserted at position p in normal editing leaves every
\* resolved span with start >= p in the span set with its start increased by one,
\* and every span with start+len <= p in the span set unchanged.
C1_InsertShiftsSpans ==
    [][PlainInsert =>
         \A i \in DOMAIN resolved_mentions :
            LET rm == resolved_mentions[i]
            IN  SpanReads(comment_input, rm) =>
                  /\ rm.start_pos >= cursor_pos =>
                        HasSpan(resolved_mentions', [rm EXCEPT !.start_pos = @ + 1])
                  /\ rm.start_pos + rm.len <= cursor_pos =>
                        HasSpan(resolved_mentions', rm)]_vars

\* the edit made by this step touches a character position inside the span
EditsInside(rm) ==
    \/ /\ PlainInsert
       /\ rm.start_pos < cursor_pos
       /\ cursor_pos < rm.start_pos + rm.len
    \/ /\ KeyBackspace
       /\ cursor_pos > 0
       /\ rm.start_pos <= cursor_pos - 1
       /\ cursor_pos - 1 < rm.start_pos + rm.len
    \/ /\ KeyDelete
       /\ cursor_pos < Len(comment_input)
       /\ rm.start_pos <= cursor_pos
       /\ cursor_pos < rm.start_pos + rm.len

\* C2: an insert, backspace or delete-forward in normal editing whose position lies
\* inside a resolved span leaves that span absent from resolved_mentions.
C2_InteriorEditInvalidates ==
    [][\A i \in DOMAIN resolved_mentions :
          LET rm == resolved_mentions[i]
          IN  (SpanReads(comment_input, rm) /\ EditsInside(rm)) =>
                 ~HasSpan(resolved_mentions', rm)]_vars

\* C3: while a comment is edited, every span of resolved_mentions lies in the
\* buffer and the buffer reads "@" + display_name at it.
C3_SpansReadTheirText ==
    Editing => \A i \in DOMAIN resolved_mentions :
                  SpanReads(comment_input, resolved_mentions[i])

\* C4: select_mention with a selected candidate replaces [trigger_pos-1, cursor) by
\* "@" + displayName + " ", appends the span {trigger_pos-1, 1+len(displayName)},
\* puts the cursor at the end of the inserted text and leaves the tracker idle.
C4_SelectMentionCommits ==
    [][(/\ select_mention
        /\ mention # <<>>
        /\ mention[1].selected < Len(mention[1].candidates)) =>
         LET m == mention[1]
             candidate == m.candidates[m.selected + 1]
             name == candidate.display_name
             at == m.trigger_pos - 1
         IN  /\ comment_input' = SubSeq(comment_input, 1, at) \o <<"@">> \o name
                    \o <<" ">> \o SubSeq(comment_input, cursor_pos + 1, Len(comment_input))
             /\ Len(resolved_mentions') = Len(resolved_mentions) + 1
             /\ resolved_mentions'[Len(resolved_mentions')] =
                    [start_pos |-> at, len |-> 1 + Len(name),
                     account_id |-> candidate.account_id, display_name |-> name]
             /\ cursor_pos' = at + Len(name) + 2
             /\ mention' = <<>>]_vars

\* a mention committed in the middle of the text: text before it, the cursor right
\* after the inserted space, text after the cursor
C4_Witness ==
    /\ mention = <<>>
    /\ Len(resolved_mentions) = 1
    /\ resolved_mentions[1].start_pos = 1
    /\ SpanReads(comment_input, resolved_mentions[1])
    /\ cursor_pos = 1 + resolved_mentions[1].len + 1
    /\ comment_input[cursor_pos] = " "
    /\ Len(comment_input) > cursor_pos

-----------------------------------------------------------------------------
(* The encoder: claims C5 - C8 *)

NodeTexts(nodes) == Concat([j \in 1..Len(nodes) |-> nodes[j].text])

RECURSIVE LineStart(_, _)
\* offset in the text of the first character of line k
LineStart(lines, k) ==
    IF k = 1 THEN 0 ELSE LineStart(lines, k - 1) + Len(lines[k - 1]) + 1

\* in bounds and covering exactly "@" + displayName (hence inside one line)
CoversItsText(text, m) ==
    /\ m.len = 1 + Len(m.display_name)
    /\ m.start + m.len <= Len(text)
    /\ SubSeq(text, m.start + 1, m.start + m.len) = <<"@">> \o m.display_name

WellFormedMentions(text, ms) ==
    /\ \A i \in DOMAIN ms : CoversItsText(text, ms[i])
    /\ \A i, j \in DOMAIN ms :
          i # j => \/ ms[i].start + ms[i].len <= ms[j].start
                   \/ ms[j].start + ms[j].len <= ms[i].start

RECURSIVE MentionNodeCount(_)
MentionNodeCount(doc) ==
    IF doc = <<>> THEN 0
    ELSE Len(SelectSeq(Head(doc), LAMBDA n : n.type = "mention"))
         + MentionNodeCount(Tail(doc))

\* C5: for well-formed, non-overlapping mentions the paragraph of each line
\* concatenates to the line, and each span has its mention node (id = accountId,
\* text = "@" + displayName) at its offset; no other mention node is emitted.
C5_MentionsEmbedded ==
    (phase = "done" /\ WellFormedMentions(input.text, input.mentions)) =>
        LET lines == SplitLines(input.text)
            doc == output.doc
            ms == input.mentions
        IN  /\ ~output.panicked
            /\ Len(doc) = Len(lines)
            /\ \A k \in DOMAIN doc :
                  /\ NodeTexts(doc[k]) = lines[k]
                  /\ \A j \in DOMAIN doc[k] :
                        doc[k][j].type \in {"text", "inlineCard", "mention"}
            /\ \A i \in DOMAIN ms :
                  \E k \in DOMAIN doc : \E j \in DOMAIN doc[k] :
                     /\ doc[k][j] = [type |-> "mention",
                                     text |-> <<"@">> \o ms[i].display_name,
                                     id |-> ms[i].account_id]
                     /\ LineStart(lines, k) + Len(NodeTexts(SubSeq(doc[k], 1, j - 1)))
                           = ms[i].start
            /\ MentionNodeCount(doc) = Len(ms)

\* "a@aa" with the span {1, 2, u1}: Text("a"), Mention(u1), Text("a")
C5_Witness ==
    /\ phase = "done"
    /\ input.text = <<"a", "@", "a", "a">>
    /\ input.mentions = <<MentionInsert(1, 2, "u1")>>
    /\ output.doc = << <<TextNode(<<"a">>),
                         [type |-> "mention", text |-> <<"@", "a">>, id |-> "u1"],
                         TextNode(<<"a">>)>> >>

\* C6: one paragraph per line, in order, each with at least one node; an empty
\* line gives a paragraph holding a single empty text node.
C6_ParagraphPerLine ==
    phase = "done" =>
        LET lines == SplitLines(input.text)
        IN  /\ Len(output.doc) = Len(lines)
            /\ \A k \in DOMAIN output.doc :
                  /\ Len(output.doc[k]) >= 1
                  /\ lines[k] = <<>> => output.doc[k] = <<TextNode(<<>>)>>

Spills(text, m) ==
    \/ m.start + m.len > Len(text)
    \/ \E i \in (m.start + 1)..(m.start + m.len) : text[i] = "\n"

\* C8: a span that spills over a line boundary or past the end of the buffer is
\* dropped: the doc is the one produced without that span.
C8_SpillingSpansDropped ==
    phase = "done" =>
        output.doc = text_to_adf(input.text,
                        SelectSeq(input.mentions,
                                  LAMBDA m : ~Spills(input.text, m))).doc

-----------------------------------------------------------------------------
(* Decode and re-encode: claim C9 *)

\* the text of each paragraph of a decoded-from tree: the raw text of its nodes
TreeParagraphTexts(doc) ==
    [k \in 1..Len(doc.content) |-> NodeTexts(doc.content[k].content)]

RECURSIVE DropEmptyStart(_)
DropEmptyStart(ps) ==
    IF ps # <<>> /\ Head(ps) = <<>> THEN DropEmptyStart(Tail(ps)) ELSE ps

RECURSIVE DropEmptyEnd(_)
DropEmptyEnd(ps) ==
    IF ps # <<>> /\ ps[Len(ps)] = <<>> THEN DropEmptyEnd(SubSeq(ps, 1, Len(ps) - 1))
    ELSE ps

\* paragraph texts up to whitespace at line boundaries: each text trimmed, and
\* empty paragraphs at either end of the document ignored
Normalised(texts) ==
    DropEmptyEnd(DropEmptyStart([k \in 1..Len(texts) |-> Trim(texts[k])]))

\* C9: decoding a tree of paragraphs and marked text nodes and re-encoding the text
\* with no mentions gives the same paragraphs with the same text, up to whitespace
\* at line boundaries.
C9_RoundTrip ==
    phase = "done" =>
        Normalised([k \in 1..Len(output.doc) |-> NodeTexts(output.doc[k])])
            = Normalised(TreeParagraphTexts(input))

-----------------------------------------------------------------------------
(* fuzzy_match: claim C10 *)

RECURSIVE IsSubsequence(_, _)
IsSubsequence(n, h) ==
    \/ n = <<>>
    \/ /\ h # <<>>
       /\ \/ Head(n) = Head(h) /\ IsSubsequence(Tail(n), Tail(h))
          \/ IsSubsequence(n, Tail(h))

\* ASCII case folding, written out
Folded(c) ==
    CASE c = "A" -> "a" [] c = "B" -> "b" [] c = "J" -> "j" [] c = "O" -> "o"
      [] c = "P" -> "p" [] c = "R" -> "r" [] c = "U" -> "u" [] OTHER -> c

FoldedString(s) == [i \in 1..Len(s) |-> Folded(s[i])]

\* C10: Some exactly when the lowercased needle is a subsequence of the lowercased
\* haystack; then one position per needle character, strictly ascending, each the
\* smallest index after the previous match holding that character.
C10_FuzzyMatchGreedy ==
    phase = "done" =>
        LET h == FoldedString(input.haystack)
            n == FoldedString(input.needle)
            ps == output.positions
        IN  /\ output.found <=> IsSubsequence(n, h)
            /\ output.found =>
                  /\ Len(ps) = Len(n)
                  /\ \A i \in DOMAIN ps :
                        LET from == IF i = 1 THEN 0 ELSE ps[i - 1] + 1
                        IN  /\ from <= ps[i]
                            /\ ps[i] < Len(h)
                            /\ h[ps[i] + 1] = n[i]
                            /\ \A x \in from..(ps[i] - 1) : h[x + 1] # n[i]
            /\ ~output.found => ps = <<>>

\* the example of the claim: ("PROJ-101 User auth", "pua") gives [0, 9, 14]
C10_Witness ==
    /\ phase = "done"
    /\ input.haystack = ExampleHaystack
    /\ input.needle = <<"p", "u", "a">>
    /\ output = [found |-> TRUE, positions |-> <<0, 9, 14>>]

-----------------------------------------------------------------------------
(* Rendering: claims C11 - C12 *)

\* the non-empty pieces between spaces
WordsOf(text) == SelectSeq(split_space(text), LAMBDA w : w # <<>>)

\* the words of the lines, line after line
WordsOfLines(lines) == Concat([k \in 1..Len(lines) |-> WordsOf(lines[k])])

\* C11: for width > 0 every word of the text appears whole, once and in order in
\* the lines; a line is started only by a word that, with one space, would not
\* fit on the line before; a line is longer than width only when it is a single
\* word; "the quick brown fox" at width 10 is "the quick", "brown fox".
C11_WordWrapGreedy ==
    (phase = "done" /\ input.max_width > 0) =>
        LET lines == output
            width == input.max_width
        IN  /\ WordsOfLines(lines) = WordsOf(input.text)
            /\ \A k \in 2..Len(lines) :
                  /\ WordsOf(lines[k]) # <<>>
                  /\ Len(lines[k - 1]) + 1 + Len(Head(WordsOf(lines[k]))) > width
            /\ \A k \in 1..Len(lines) :
                  \/ Len(lines[k]) <= width
                  \/ \A j \in 1..Len(lines[k]) : lines[k][j] # " "
            /\ (input.text = QuickBrownFox /\ width = 10) =>
                  lines = <<SubSeq(QuickBrownFox, 1, 9), SubSeq(QuickBrownFox, 11, 19)>>

\* a text wrapped into several lines, one of them holding two words
C11_Witness ==
    /\ phase = "done"
    /\ input.max_width > 0
    /\ Len(output) >= 2
    /\ \E k \in 1..Len(output) : Len(WordsOf(output[k])) >= 2
    /\ \E k \in 1..Len(output) : Len(output[k]) > input.max_width

\* a plain fragment for a non-empty piece of text, nothing for an empty one
PlainIfAny(t) == IF t = <<>> THEN <<>> ELSE <<Span(t, "body")>>

\* the text holds none of the other markers of the inline parser
OnlyBoldMarkers(text) ==
    /\ Find(text, <<Backtick>>) = -1
    /\ Find(text, <<"[">>) = -1
    /\ url_pos(text) = -1

\* C12 as stated: "a **b** c" gives ["a ", bold("b"), " c"] and the unterminated
\* "a **b" gives exactly the two plain fragments ["a ", "**b"].
C12_BoldFragments ==
    phase = "done" =>
        /\ input = TerminatedBold =>
              output = <<Span(<<"a", " ">>, "body"), Span(<<"b">>, "bold"),
                         Span(<<" ", "c">>, "body")>>
        /\ input = UnterminatedBold =>
              output = <<Span(<<"a", " ">>, "body"), Span(<<"*", "*", "b">>, "body")>>

\* C12 amended: a terminated **x** becomes one bold fragment "x" between the plain
\* fragments around it; an opening ** with no closing ** becomes a plain fragment
\* of the two characters, followed by the rest of the text as its own plain
\* fragment: "a **b" gives the three plain fragments ["a ", "**", "b"].
C12_BoldFragmentsAmended ==
    (phase = "done" /\ OnlyBoldMarkers(input) /\ Find(input, Stars) # -1) =>
        LET pos == Find(input, Stars)
            before == Slice(input, 0, pos)
            after == Slice(input, pos + 2, Len(input))
            end == Find(after, Stars)
            rest == Slice(after, end + 2, Len(after))
        IN  /\ (end # -1 /\ Find(rest, Stars) = -1) =>
                  output = PlainIfAny(before) \o <<Span(Slice(after, 0, end), "bold")>>
                           \o PlainIfAny(rest)
            /\ end = -1 =>
                  output = PlainIfAny(before) \o <<Span(Stars, "body")>>
                           \o PlainIfAny(after)
            /\ input = TerminatedBold =>
                  output = <<Span(<<"a", " ">>, "body"), Span(<<"b">>, "bold"),
                             Span(<<" ", "c">>, "body")>>
            /\ input = UnterminatedBold =>
                  output = <<Span(<<"a", " ">>, "body"), Span(Stars, "body"),
                             Span(<<"b">>, "body")>>

\* the unterminated example has been parsed into its three plain fragments
C12_Witness ==
    /\ phase = "done"
    /\ input = UnterminatedBold
    /\ Len(output) = 3
    /\ \A k \in 1..3 : output[k].style = "body"

-----------------------------------------------------------------------------
(* Decoding incomplete trees: claim C13 *)

\* the node types adf_to_text has a rule for
KnownTypes ==
    {"doc", "paragraph", "heading", "text", "hardBreak", "bulletList", "orderedList",
     "listItem", "blockquote", "codeBlock", "mention", "emoji", "inlineCard",
     "mediaGroup", "mediaSingle", "media", "rule", "table", "tableRow", "tableCell",
     "tableHeader"}

\* the characters a decoded text of the explored trees is made of
DecodedChars ==
    {"a", " ", "\n", "#", "*", "_", "-", ">", ".", "@", "[", "]", Backtick, BoxLine}
    \cup {Digits[i] : i \in 1..10}
    \cup {"s", "o", "m", "e", "n", "l", "i", "k", "d"}

IsString(s) ==
    /\ DOMAIN s = 1..Len(s)
    /\ \A i \in 1..Len(s) : s[i] \in DecodedChars

\* the children of a node, none when content is absent
ChildrenOf(value) == unwrap_or(get(value, "content"), <<>>)

-----------------------------------------------------------------------------
(* Composing a mention: claims C14 - C20 *)

\* a key of the mention overlay that ends in fetch_mention_candidates, with the
\* outcome ok of the lookup it may issue
ComposingEdit(ok) ==
    \/ \E c \in PlainChars \cup {"@"} : MentionChar(c, ok)
    \/ (MentionBackspace(ok) /\ mention' # <<>>)

\* the step issues a lookup: the query it leaves is not empty and is not the one
\* remembered from the lookup before
IssuesLookup ==
    /\ mention' # <<>>
    /\ mention'[1].query # <<>>
    /\ mention'[1].query # last_mention_query

\* C14: when the lookup issued for a new non-empty query fails or returns no user,
\* the candidate list is empty afterwards, whatever it held before.
C14_FailedLookupEmpties ==
    [][\A ok \in BOOLEAN :
          (/\ ComposingEdit(ok)
           /\ IssuesLookup
           /\ (~ok \/ search_users(mention'[1].query) = <<>>))
          => mention'[1].candidates = <<>>]_vars

\* the candidate list is replaced by the step (or made, with the overlay)
CandidatesSet ==
    /\ mention' # <<>>
    /\ (mention = <<>> \/ mention'[1].candidates # mention[1].candidates)

\* C15: the candidate list is only ever set while composing, and then to the
\* result of the lookup for the query that is current when it is set (to nothing
\* for the empty query): no response reaches an idle tracker or another query.
C15_ResponsesMatchCurrentQuery ==
    [][CandidatesSet =>
          /\ Composing'
          /\ mention'[1].candidates =
                IF mention'[1].query = <<>> THEN <<>>
                ELSE search_users(mention'[1].query)]_vars

\* the second of two lookups has been applied: the candidates are those of the
\* longer query, not those of the query before it
C15_Witness ==
    /\ Composing
    /\ mention[1].query = <<"a", "a">>
    /\ last_mention_query = <<"a", "a">>
    /\ mention[1].candidates = <<User2>>

\* the ranges [start_pos, start_pos + len) of two spans share a position
Overlap(a, b) ==
    /\ a.start_pos < b.start_pos + b.len
    /\ b.start_pos < a.start_pos + a.len

C17_ComposingWellFormed ==
    mention # <<>> =>
        LET m == mention[1]
        IN  /\ Editing
            /\ m.trigger_pos >= 1
            /\ m.trigger_pos <= cursor_pos
            /\ cursor_pos <= Len(comment_input)
            /\ comment_input[m.trigger_pos] = "@"
            /\ m.query = Slice(comment_input, m.trigger_pos, cursor_pos)

\* a query of two characters composed in the middle of the buffer, after a
\* backspace and a character typed in the overlay
C17_Witness ==
    /\ Composing
    /\ mention[1].trigger_pos > 1
    /\ Len(mention[1].query) = 2
    /\ cursor_pos < Len(comment_input)

\* a backspace of the overlay that leaves the cursor before trigger_pos
BackspacePastTrigger ==
    /\ \E ok \in BOOLEAN : MentionBackspace(ok)
    /\ cursor_pos' < mention[1].trigger_pos

\* C18: Esc, a backspace that leaves the cursor before trigger_pos and a space each
\* end composing without adding a span; the space is inserted at the cursor as
\* plain text; Esc leaves buffer and cursor as they are.
C18_CancelsEndComposing ==
    [][/\ (cancel_mention \/ BackspacePastTrigger \/ MentionSpace) =>
              /\ mention' = <<>>
              /\ resolved_mentions' = resolved_mentions
       /\ MentionSpace =>
              /\ comment_input' = SubSeq(comment_input, 1, cursor_pos) \o <<" ">>
                    \o SubSeq(comment_input, cursor_pos + 1, Len(comment_input))
              /\ cursor_pos' = cursor_pos + 1
       /\ cancel_mention =>
              /\ comment_input' = comment_input
              /\ cursor_pos' = cursor_pos]_vars

\* composing was ended by a space typed before the end of the buffer: the '@',
\* the query and the space stay as plain text, no span is recorded
C18_Witness ==
    /\ Editing
    /\ mention = <<>>
    /\ resolved_mentions = <<>>
    /\ comment_input = <<"@", "a", " ", "a">>
    /\ cursor_pos = 3

\* C20: select_mention with an empty candidate list changes nothing: buffer,
\* cursor, resolved_mentions and the composing state stay, the tracker keeps
\* composing.
C20_SelectWithoutCandidates ==
    [][(select_mention /\ mention[1].candidates = <<>>) =>
          /\ Composing'
          /\ mention' = mention
          /\ comment_input' = comment_input
          /\ cursor_pos' = cursor_pos
          /\ resolved_mentions' = resolved_mentions]_vars

\* composing a query no user matches, with a span recorded earlier: the state
\* Enter is pressed in and stays in
C20_Witness ==
    /\ Composing
    /\ mention[1].query = <<"a", "@">>
    /\ mention[1].candidates = <<>>
    /\ resolved_mentions # <<>>

\* the overlay key of this step ended in a search_users call, of outcome ok
LookupIssued(ok) ==
    /\ ComposingEdit(ok)
    /\ mention' # <<>>
    /\ fetch_mention_candidates(
           update_mention_query(mention[1], comment_input', cursor_pos'),
           last_mention_query, ok).issued

\* C19 as stated: a lookup is issued only for a non-empty query that differs from
\* the query of the lookup issued last, whatever happened between the two.
C19_NoRepeatedLookup ==
    [][\A ok \in BOOLEAN :
          LookupIssued(ok) =>
              /\ mention'[1].query # <<>>
              /\ issued_lookup # <<mention'[1].query>>]_vars

\* C19 amended: a lookup is issued only for a non-empty query that differs from
\* last_mention_query; last_mention_query is the query of the lookup issued last
\* unless Esc, a space, a backspace past the '@', an empty query or opening or
\* leaving the comment box has cleared it since: two consecutive lookups carry the
\* same query only with such a clearing between them.
C19_NoRepeatedLookupUnlessCleared ==
    [][/\ \A ok \in BOOLEAN :
             LookupIssued(ok) =>
                 /\ mention'[1].query # <<>>
                 /\ mention'[1].query # last_mention_query
                 /\ issued_lookup' = <<mention'[1].query>>
                 /\ last_mention_query' = mention'[1].query
                 /\ (issued_lookup = <<mention'[1].query>> => last_mention_query = <<>>)
       /\ (last_mention_query # <<>> => issued_lookup = <<last_mention_query>>)
       /\ (last_mention_query # <<>> /\ last_mention_query' = <<>>) =>
              \/ cancel_mention
              \/ MentionSpace
              \/ \E ok \in BOOLEAN : MentionBackspace(ok)
              \/ \E ok \in BOOLEAN, c \in PlainChars \cup {"@"} :
                    MentionChar(c, ok) /\ mention'[1].query = <<>>
              \/ start_adding_comment
              \/ cancel_comment_action]_vars

\* the same query has been looked up again after a cancel: the overlay of the
\* second '@' holds the candidates of the repeated lookup
C19_Witness ==
    /\ Composing
    /\ mention[1].trigger_pos > 1
    /\ comment_input[1] = "@"
    /\ resolved_mentions = <<>>
    /\ mention[1].query = <<"a">>
    /\ issued_lookup = <<<<"a">>>>
    /\ last_mention_query = <<"a">>
    /\ mention[1].candidates = <<User1, User2>>

-----------------------------------------------------------------------------
(* Candidates and submission: claims C21, C26, C27 *)

\* C21: a key of the overlay that leaves the query empty leaves the candidate
\* list and the selected index as they were.
C21_EmptyQueryKeepsCandidates ==
    [][\A ok \in BOOLEAN :
          (ComposingEdit(ok) /\ mention'[1].query = <<>>) =>
              /\ mention'[1].candidates = mention[1].candidates
              /\ mention'[1].selected = mention[1].selected]_vars

\* C27: with a lookup service that succeeds, after every overlay key that leaves
\* a non-empty query the candidate list is the lookup result for that query, also
\* when the query is the one looked up last for a mention committed before.
C27_CandidatesFollowQuery ==
    [][(ComposingEdit(TRUE) /\ mention'[1].query # <<>>)
          => mention'[1].candidates = search_users(mention'[1].query)]_vars

-----------------------------------------------------------------------------
(* Bare URLs and marks: claims C22 - C23 *)

RECURSIVE UrlSplit(_)
\* the segment cut at every URL: a URL starts at the first "http://" or
\* "https://", whichever comes first, and runs to the next whitespace or the end
UrlSplit(segment) ==
    IF segment = <<>> THEN <<>>
    ELSE LET start == url_pos(segment)
         IN  IF start = -1 THEN <<TextNode(segment)>>
             ELSE LET from_url == Slice(segment, start, Len(segment))
                      ws == FindWhitespaceFrom(from_url, 0)
                      end == IF ws = -1 THEN Len(from_url) ELSE ws
                  IN  (IF start > 0 THEN <<TextNode(Slice(segment, 0, start))>>
                       ELSE <<>>)
                      \o <<CardNode(Slice(from_url, 0, end))>>
                      \o UrlSplit(Slice(from_url, end, Len(from_url)))

\* C22: every bare URL of the segment becomes an inlineCard with that url, the
\* rest text nodes, in source order; the node texts and urls concatenate to the
\* segment - also when an http:// URL comes before an https:// URL.
C22_UrlsBecomeCards ==
    phase = "done" =>
        /\ NodeTexts(output) = input
        /\ output = UrlSplit(input)

\* the delimiter the claim gives each mark
DelimiterOf(mark) ==
    IF mark = "strong" THEN <<"*", "*">>
    ELSE IF mark = "em" THEN <<"_">>
    ELSE IF mark = "code" THEN <<Backtick>>
    ELSE IF mark = "strike" THEN <<"~">>
    ELSE <<>>

\* C23: the decoded text node is its raw text between the delimiters of its
\* marks, the first mark innermost and the last outermost; link and unknown marks
\* add nothing, and without marks the raw text comes out as it is.
C23_MarksNestInOrder ==
    phase = "done" =>
        LET marks == unwrap_or(get(input, "marks"), <<>>)
            n == Len(marks)
        IN  /\ output = Concat([i \in 1..n |-> DelimiterOf(marks[n + 1 - i])])
                        \o input.text
                        \o Concat([i \in 1..n |-> DelimiterOf(marks[i])])
            /\ (\A i \in 1..n : marks[i] \in {"link", "underline"}) =>
                  output = input.text

\* strong then em: the strong delimiters inside, the em delimiters outside
C23_Witness ==
    /\ phase = "done"
    /\ get(input, "marks") = <<<<"strong", "em">>>>
    /\ output = <<"_", "*", "*", "a", "*", "*", "_">>

-----------------------------------------------------------------------------
(* Rendered rows: claims C24, C25, C28 *)

\* the characters of a rendered row
RowText(row) == Concat([i \in 1..Len(row) |-> row[i].content])

\* what the first row of a marked line starts with
FirstRowPrefix(marker) ==
    CASE marker = <<" ", " ", "-", " ">> -> <<" ", " ", Bullet, " ">>
      [] marker = <<">", " ">> -> <<Bar, " ">>
      [] marker = <<">", " ", " ", " ", "-", " ">> -> <<Bar, " ", Bullet, " ">>
      [] starts_with(marker, <<">", " ">>) ->
            <<Bar, " ">> \o SubSeq(marker, 5, Len(marker))
      [] OTHER -> marker

\* what a continuation row starts with: the bar of a quote, then blanks
ContinuationPrefix(marker) ==
    LET first == FirstRowPrefix(marker)
    IN  [i \in 1..Len(first) |->
            IF i = 1 /\ first[1] = Bar THEN Bar ELSE " "]

\* the line is the marker followed by content the marker does not swallow
PlainlyMarked ==
    input.marker = <<">", " ">> => (input.content = <<>> \/ input.content[1] # " ")

\* the rows of the line: the first starts with the marker prefix, the others with
\* a prefix of the same width, and each row fits the width unless what follows
\* its prefix is a single word longer than the room left by the prefix
RowsFit ==
    LET w == input.width
        first == FirstRowPrefix(input.marker)
        p == Len(first)
    IN  /\ Len(output) >= 1
        /\ starts_with(RowText(output[1]), first)
        /\ \A k \in 2..Len(output) :
              starts_with(RowText(output[k]), ContinuationPrefix(input.marker))
        /\ \A k \in 1..Len(output) :
              LET text == RowText(output[k])
                  content == SubSeq(text, p + 1, Len(text))
              IN  \/ Len(text) <= w
                  \/ /\ Len(content) > w - p
                     /\ \A i \in 1..Len(content) : content[i] # " "

\* C24 as stated: at every width w the rows of a bullet, numbered or blockquote
\* line carry prefixes of one width and have at most w characters, unless the
\* content of the row is a single word longer than the room left.
C24_PrefixedRowsFit ==
    (phase = "done" /\ PlainlyMarked) => RowsFit

\* C24 amended: the same, at every width w greater than the width of the prefix.
C24_PrefixedRowsFitWiderThanPrefix ==
    (phase = "done" /\ PlainlyMarked
        /\ input.width > Len(FirstRowPrefix(input.marker))) => RowsFit

\* a numbered line in a quote wrapped into three rows, room left for one
\* character a row
C24_Witness ==
    /\ phase = "done"
    /\ input.marker = <<">", " ", " ", " ", "1", ".", " ">>
    /\ input.width = 6
    /\ Len(output) = 3
    /\ RowText(output[2]) = <<Bar, " ", " ", " ", " ", "a">>


\* the row holds a link fragment
HasLink(row) == \E i \in 1..Len(row) : row[i].style = "link"

\* C25: every rendered row that holds a link fragment, a bare URL or a
\* [text](url) link with any display text, has that URL in the link map, and a
\* click on the row opens it.
C25_LinkRowsOpenUrl ==
    phase \in {"drawn", "done"} =>
        /\ \A k \in 1..Len(output.lines) :
              HasLink(output.lines[k]) => output.link_map[k] = <<LinkUrl>>
        /\ \A k \in 1..Len(output.lines) :
              (output.clicked = <<k - 1>> /\ HasLink(output.lines[k]))
                  => output.opened = <<LinkUrl>>


\* the rows drawn as fence labels
FenceRows(lines) == {k \in 1..Len(lines) : lines[k][1].style = "fence"}

\* C28: a decoded code block followed by a paragraph renders with the fence
\* closed again: an opening and a closing fence row, and the paragraph after
\* them as regular text and not as a code row, for every code text.
C28_FenceClosedAfterCodeBlock ==
    phase = "done" =>
        LET lines == output.lines
        IN  /\ Cardinality(FenceRows(lines)) = 2
            /\ \A k \in 1..Len(lines) :
                  (\E i \in 1..Len(lines[k]) : lines[k][i].style = "codeline")
                      => \E f \in FenceRows(lines) : f > k
            /\ \E i \in 1..Len(lines[Len(lines)]) :
                  /\ lines[Len(lines)][i].style = "body"
                  /\ lines[Len(lines)][i].content # <<>>

-----------------------------------------------------------------------------
(* Comments of the open ticket: claim C30 *)

\* the comments of the open ticket written by the running account
OwnComments ==
    {input.comments[i] : i \in {j \in 1..Len(input.comments) :
        input.comments[j].author_account_id = current_account_id}}

\* C30: an update or delete request is only ever sent for a comment of the open
\* ticket written by the running account: the update from the editor opened on
\* that comment, the delete from the confirmation asked for that comment.
C30_OnlyOwnCommentsChanged ==
    [][(output' # <<>> /\ output'[1].kind \in {"update", "delete"}) =>
          /\ \E c \in OwnComments : output'[1].comment_id = <<c.id>>
          /\ output'[1].kind = "update" =>
                /\ mode = "DetailEditingComment"
                /\ input.editing_comment_id = output'[1].comment_id
          /\ output'[1].kind = "delete" =>
                /\ mode = "DetailConfirmDelete"
                /\ selected_comment(input) # <<>>
                /\ output'[1].comment_id = <<selected_comment(input)[1].id>>]_vars

\* the second of two comments, the first written by another account, has been
\* edited and the update sent
C30_Witness ==
    /\ output # <<>>
    /\ output[1].kind = "update"
    /\ output[1].comment_id = <<"c3">>
    /\ output[1].text = <<"a", "a">>
    /\ input.comments = <<OtherComment, OwnSecond>>

-----------------------------------------------------------------------------
(* The issue list: claim C29 *)

RECURSIVE OccursInOrder(_, _)
\* the characters of needle occur in haystack in this order, letter case aside:
\* the first of them somewhere, the others in what follows that place
OccursInOrder(needle, haystack) ==
    \/ needle = <<>>
    \/ \E k \in 1..Len(haystack) :
          /\ to_lowercase(haystack[k]) = to_lowercase(Head(needle))
          /\ OccursInOrder(Tail(needle), SubSeq(haystack, k + 1, Len(haystack)))

\* rows is the part of all_rows, in its order, that the search input matches, and
\* selected lies inside rows, or is 0 when there are none
RowsFollowSearch(fields) ==
    /\ fields.rows =
          SelectSeq(fields.all_rows,
              LAMBDA row : OccursInOrder(fields.search_input,
                              row.issue.key \o <<" ">> \o row.issue.summary))
    /\ fields.search_input = <<>> => fields.rows = fields.all_rows
    /\ IF fields.rows = <<>> THEN fields.selected = 0
       ELSE fields.selected < Len(fields.rows)

\* refresh, move_up, move_down, an edit of the search input, clear_search,
\* apply_sort: the first four are the steps that stay in the list or in the search
ListStep ==
    \/ mode' = mode /\ mode \in {"Normal", "Searching"}
    \/ clear_search
    \/ apply_sort

====
